---- MODULE Spec2Model ----
(***************************************************************************)
(* Model of ia_provider/importer.py: the word-count regrouping of semantic *)
(* blocks into chunks (_regrouper_blocs_en_chunks), the heuristic title    *)
(* detector (_est_un_titre_probable) and the import entry points           *)
(* (analyser_docx, analyser_pdf, analyser_document).                       *)
(*                                                                         *)
(* A Python str is a sequence of one-character strings; "\n" is the line   *)
(* feed that "\n".join inserts.                                            *)
(***************************************************************************)
EXTENDS Integers, Sequences, FiniteSets, Bags, TLC

VARIABLES
    pc,                    \* position of the running call
    blocs,                 \* argument blocs: sequence of BlocSemantique
    mots_par_chunk,        \* argument mots_par_chunk
    idx,                   \* number of blocs the for loop has consumed
    chunks_finaux,         \* local chunks_finaux
    chunk_actuel_contenu,  \* local chunk_actuel_contenu
    chunk_actuel_mots,     \* local chunk_actuel_mots
    nb_blocs_chunks,       \* history: how many blocs each emitted chunk was built from
    paragraph,             \* argument of _est_un_titre_probable
    resultat_titre,        \* what _est_un_titre_probable returned
    fichier,               \* argument of analyser_document: the uploaded file
    appelant,              \* the import function that is running, if any
    strategie,             \* local strategie of analyser_docx
    exception,             \* the exception raised inside the try block, if any
    resultat,              \* what analyser_document returned: <<chunks, strategie>>
    texte_markdown,        \* argument text of add_markdown: the Markdown source
    styles,                \* self.styles["response"] of the converter
    doc,                   \* self.doc: the block items of the document being built
    restants,              \* elements of soup.body the for loop has still to walk
    erreur,                \* the exception caught by add_markdown, if any
    document,              \* argument document of _creer_blocs_semantiques: its body
    position,              \* number of body elements the for loop has consumed
    contenu_actuel,        \* local contenu_actuel
    niveau_actuel,         \* local niveau_actuel
    detecteurs,            \* history: the heading detector consulted for each element
    user_instruction,      \* app.py: the instruction typed by the user
    prompt,                \* app.py: prompt, the text built for the provider
    envoi,                 \* what was handed to the provider, if anything yet
    document_structure_pour_export,  \* app.py: set when contenu_brut is a dict
    chemin,                \* the page section that runs: synchronous call or batch
    response,              \* the text of the LLM response
    reponse_structuree,    \* json.loads(response), the argument of generer_export_docx
    buffer,                \* the DOCX buffer offered for download, if any
    non_attrapee,          \* the exception that left the export step, if any
    document_a_decouper,   \* argument document of decouper_document_en_chunks
    seuil,                 \* its block-count threshold T
    curseur,               \* number of body blocks the walk has consumed
    pending,               \* the pending list of the walk
    chunks_decoupe,        \* the chunks emitted so far
    coupes,                \* history: the kind of cut that emitted each chunk
    section,               \* generer_export_docx: header and footer of doc.sections[0]
    history_file,          \* batch.py: the content of HISTORY_FILE
    history_retour,        \* what get_history returned, if it has run
    horloge,               \* time.time()
    attente,               \* wait_for_completion: its arguments, locals and outcome
    session_state,         \* app.py: st.session_state
    kwargs,                \* the keyword arguments of the provider call
    appels,                \* the calls the API client has received, in order
    issue                  \* how the provider call ended, if it has

varsChunk == <<blocs, mots_par_chunk, idx, chunks_finaux, chunk_actuel_contenu,
               chunk_actuel_mots, nb_blocs_chunks>>

varsTitre == <<paragraph, resultat_titre>>

varsImport == <<fichier, appelant, strategie, exception, resultat>>

varsMarkdown == <<texte_markdown, styles, doc, restants, erreur>>

varsBlocs == <<document, position, contenu_actuel, niveau_actuel, detecteurs>>

varsApp == <<user_instruction, prompt, envoi, document_structure_pour_export, chemin,
             response, reponse_structuree, buffer, non_attrapee>>

varsDecoupe == <<document_a_decouper, seuil, curseur, pending, chunks_decoupe, coupes>>

varsSection == <<section>>

varsLot == <<history_file, history_retour, horloge, attente>>

varsProvider == <<session_state, kwargs, appels, issue>>

vars == <<pc, varsChunk, varsTitre, varsImport, varsMarkdown, varsBlocs, varsApp,
          varsDecoupe, varsSection, varsLot, varsProvider>>

\* what a step of one call leaves alone
horsChunk == <<varsTitre, varsImport, varsMarkdown, varsBlocs, varsApp, varsDecoupe,
    varsSection, varsLot, varsProvider>>
horsTitre == <<varsChunk, varsImport, varsMarkdown, varsBlocs, varsApp, varsDecoupe,
    varsSection, varsLot, varsProvider>>
horsImport == <<varsTitre, varsMarkdown, varsBlocs, varsApp, varsDecoupe,
    varsSection, varsLot, varsProvider>>
horsMarkdown == <<varsChunk, varsTitre, varsImport, varsBlocs, varsApp, varsDecoupe,
    varsSection, varsLot, varsProvider>>
horsBlocs == <<varsTitre, varsMarkdown, varsApp, varsDecoupe,
    varsSection, varsLot, varsProvider>>
horsApp == <<varsChunk, varsTitre, varsBlocs, varsDecoupe,
    varsSection, varsLot, varsProvider>>
horsDecoupe == <<varsChunk, varsTitre, varsImport, varsMarkdown, varsBlocs, varsApp,
    varsSection, varsLot, varsProvider>>

----------------------------------------------------------------------------
(* Bounds of the model *)

MaxBlocs == 3      \* longest list of blocs
MaxBudget == 2     \* largest word budget; nombre_mots ranges over 0..MaxBudget+1
MaxItems == 2      \* most runs and hyperlinks in a paragraph
MaxPages == 2      \* most pages in a PDF

----------------------------------------------------------------------------
(* Python str helpers *)

NL == "\n"

\* an optional value: None is the empty tuple, a value v is <<v>>
None == <<>>
Some(v) == <<v>>

RECURSIVE Concat(_)
\* "".join(parts)
Concat(parts) ==
    IF parts = <<>> THEN <<>> ELSE Head(parts) \o Concat(Tail(parts))

RECURSIVE JoinNL(_)
\* "\n".join(parts)
JoinNL(parts) ==
    IF parts = <<>> THEN <<>>
    ELSE IF Len(parts) = 1 THEN parts[1]
    ELSE parts[1] \o <<NL>> \o JoinNL(Tail(parts))

----------------------------------------------------------------------------
(* _regrouper_blocs_en_chunks *)

\* the contenu_markdown values the inputs are drawn from: empty, one line, two lines
Contenus == { <<>>, <<"a">>, <<"b", NL, "c">> }

BlocSemantique ==
    [contenu_markdown : Contenus, nombre_mots : 0..(MaxBudget + 1)]

ListesDeBlocs == UNION { [1..n -> BlocSemantique] : n \in 0..MaxBlocs }

\* mutant of Joindre: the contents are glued with no separator
Joindre_Colle(contenu) == Concat(contenu)

\* "\n".join(chunk_actuel_contenu)
Joindre(contenu) == JoinNL(contenu)

\* mutant of EstGeant: a bloc that exactly fills the budget counts as oversized
EstGeant_Egal(bloc, W) == bloc.nombre_mots >= W

\* bloc["nombre_mots"] > mots_par_chunk
EstGeant(bloc, W) == bloc.nombre_mots > W

\* mutant of Deborde: the words of the incoming bloc are not counted
Deborde_SansBloc(mots, bloc, W) == mots > W /\ mots > 0

\* (chunk_actuel_mots + bloc["nombre_mots"]) > mots_par_chunk and chunk_actuel_mots > 0
Deborde(mots, bloc, W) == (mots + bloc.nombre_mots) > W /\ mots > 0

\* the variables of a call that is not running
TitreInactif == paragraph = <<>> /\ resultat_titre = None

ImportInactif ==
    /\ fichier = <<>>
    /\ appelant = "aucun"
    /\ strategie = None
    /\ exception = "aucune"
    /\ resultat = None

\* a style dict without any key
StyleVide ==
    [font_name |-> None, font_size |-> None, font_color_rgb |-> None,
     is_bold |-> None, is_italic |-> None]

MarkdownInactif ==
    /\ texte_markdown = <<>>
    /\ styles = StyleVide
    /\ doc = <<>>
    /\ restants = <<>>
    /\ erreur = None

BlocsInactif ==
    /\ document = <<>>
    /\ position = 0
    /\ contenu_actuel = <<>>
    /\ niveau_actuel = 0
    /\ detecteurs = <<>>

SectionInactif == section = [header |-> <<>>, footer |-> <<>>]

LotInactif ==
    /\ history_file = <<>>
    /\ history_retour = <<>>
    /\ horloge = 0
    /\ attente = <<>>

ProviderInactif ==
    /\ session_state = <<>>
    /\ kwargs = <<>>
    /\ appels = <<>>
    /\ issue = <<>>

DecoupeInactif ==
    /\ document_a_decouper = <<>>
    /\ seuil = 0
    /\ curseur = 0
    /\ pending = <<>>
    /\ chunks_decoupe = <<>>
    /\ coupes = <<>>

AppInactif ==
    /\ user_instruction = <<>>
    /\ prompt = <<>>
    /\ envoi = None
    /\ document_structure_pour_export = None
    /\ chemin = "aucun"
    /\ response = None
    /\ reponse_structuree = None
    /\ buffer = None
    /\ non_attrapee = "aucune"

ChunkInactif ==
    /\ blocs = <<>>
    /\ mots_par_chunk = 0
    /\ idx = 0
    /\ chunks_finaux = <<>>
    /\ chunk_actuel_contenu = <<>>
    /\ chunk_actuel_mots = 0
    /\ nb_blocs_chunks = <<>>

InitChunk ==
    /\ pc = "regrouper"
    /\ SectionInactif
    /\ LotInactif
    /\ ProviderInactif
    /\ DecoupeInactif
    /\ AppInactif
    /\ TitreInactif
    /\ ImportInactif
    /\ MarkdownInactif
    /\ BlocsInactif
    /\ blocs \in ListesDeBlocs
    /\ mots_par_chunk \in 0..MaxBudget
    /\ idx = 0
    /\ chunks_finaux = <<>>
    /\ chunk_actuel_contenu = <<>>
    /\ chunk_actuel_mots = 0
    /\ nb_blocs_chunks = <<>>

\* if not blocs: return []
RetourVide ==
    /\ pc = "regrouper"
    /\ blocs = <<>>
    /\ pc' = "fini"
    /\ UNCHANGED <<varsChunk, horsChunk>>

\* the locals are initialised and the for loop is entered
EntrerBoucle ==
    /\ pc = "regrouper"
    /\ blocs # <<>>
    /\ pc' = "boucle"
    /\ UNCHANGED <<varsChunk, horsChunk>>

\* mutant of BlocGeant: the oversized bloc is appended to the running chunk, which
\* is then flushed, instead of being emitted on its own
BlocGeant_DansChunk ==
    /\ pc = "boucle"
    /\ idx < Len(blocs)
    /\ LET bloc == blocs[idx + 1] IN
        /\ EstGeant(bloc, mots_par_chunk)
        /\ chunks_finaux' =
              Append(chunks_finaux,
                     Joindre(Append(chunk_actuel_contenu, bloc.contenu_markdown)))
        /\ nb_blocs_chunks' = Append(nb_blocs_chunks, Len(chunk_actuel_contenu) + 1)
    /\ chunk_actuel_contenu' = <<>>
    /\ chunk_actuel_mots' = 0
    /\ idx' = idx + 1
    /\ UNCHANGED <<pc, blocs, mots_par_chunk, horsChunk>>

\* loop body, first branch: the bloc alone exceeds the budget
BlocGeant ==
    /\ pc = "boucle"
    /\ idx < Len(blocs)
    /\ LET bloc == blocs[idx + 1] IN
        /\ EstGeant(bloc, mots_par_chunk)
        /\ chunks_finaux' =
              (IF chunk_actuel_contenu # <<>>
                 THEN Append(chunks_finaux, Joindre(chunk_actuel_contenu))
                 ELSE chunks_finaux) \o <<bloc.contenu_markdown>>
        /\ nb_blocs_chunks' =
              (IF chunk_actuel_contenu # <<>>
                 THEN Append(nb_blocs_chunks, Len(chunk_actuel_contenu))
                 ELSE nb_blocs_chunks) \o <<1>>
    /\ chunk_actuel_contenu' = <<>>
    /\ chunk_actuel_mots' = 0
    /\ idx' = idx + 1
    /\ UNCHANGED <<pc, blocs, mots_par_chunk, horsChunk>>

\* mutant of BlocDeborde: the running chunk is flushed but the new chunk is not
\* started with the incoming bloc, which is lost
BlocDeborde_PerdBloc ==
    /\ pc = "boucle"
    /\ idx < Len(blocs)
    /\ LET bloc == blocs[idx + 1] IN
        /\ ~EstGeant(bloc, mots_par_chunk)
        /\ Deborde(chunk_actuel_mots, bloc, mots_par_chunk)
        /\ chunks_finaux' = Append(chunks_finaux, Joindre(chunk_actuel_contenu))
        /\ nb_blocs_chunks' = Append(nb_blocs_chunks, Len(chunk_actuel_contenu))
        /\ chunk_actuel_contenu' = <<>>
        /\ chunk_actuel_mots' = 0
    /\ idx' = idx + 1
    /\ UNCHANGED <<pc, blocs, mots_par_chunk, horsChunk>>

\* loop body, second branch: the bloc would overflow the running chunk
BlocDeborde ==
    /\ pc = "boucle"
    /\ idx < Len(blocs)
    /\ LET bloc == blocs[idx + 1] IN
        /\ ~EstGeant(bloc, mots_par_chunk)
        /\ Deborde(chunk_actuel_mots, bloc, mots_par_chunk)
        /\ chunks_finaux' = Append(chunks_finaux, Joindre(chunk_actuel_contenu))
        /\ nb_blocs_chunks' = Append(nb_blocs_chunks, Len(chunk_actuel_contenu))
        /\ chunk_actuel_contenu' = <<bloc.contenu_markdown>>
        /\ chunk_actuel_mots' = bloc.nombre_mots
    /\ idx' = idx + 1
    /\ UNCHANGED <<pc, blocs, mots_par_chunk, horsChunk>>

\* loop body, else branch: the bloc joins the running chunk
BlocAccumule ==
    /\ pc = "boucle"
    /\ idx < Len(blocs)
    /\ LET bloc == blocs[idx + 1] IN
        /\ ~EstGeant(bloc, mots_par_chunk)
        /\ ~Deborde(chunk_actuel_mots, bloc, mots_par_chunk)
        /\ chunk_actuel_contenu' = Append(chunk_actuel_contenu, bloc.contenu_markdown)
        /\ chunk_actuel_mots' = chunk_actuel_mots + bloc.nombre_mots
    /\ idx' = idx + 1
    /\ UNCHANGED <<pc, blocs, mots_par_chunk, chunks_finaux, nb_blocs_chunks, horsChunk>>

\* after the loop: flush what is left and return chunks_finaux
FlushFinal ==
    /\ pc = "boucle"
    /\ idx = Len(blocs)
    /\ chunks_finaux' =
          (IF chunk_actuel_contenu # <<>>
             THEN Append(chunks_finaux, Joindre(chunk_actuel_contenu))
             ELSE chunks_finaux)
    /\ nb_blocs_chunks' =
          (IF chunk_actuel_contenu # <<>>
             THEN Append(nb_blocs_chunks, Len(chunk_actuel_contenu))
             ELSE nb_blocs_chunks)
    /\ pc' = "fini"
    /\ UNCHANGED <<blocs, mots_par_chunk, idx, chunk_actuel_contenu, chunk_actuel_mots,
                   horsChunk>>

NextChunk ==
    \/ RetourVide
    \/ EntrerBoucle
    \/ BlocGeant
    \/ BlocDeborde
    \/ BlocAccumule
    \/ FlushFinal

SpecChunk == InitChunk /\ [][NextChunk]_vars

----------------------------------------------------------------------------
(* Reading the result of _regrouper_blocs_en_chunks *)

Fini == pc = "fini"

RECURSIVE Somme(_)
Somme(ns) == IF ns = <<>> THEN 0 ELSE Head(ns) + Somme(Tail(ns))

\* index in blocs of the first and last bloc that chunk k was built from
Debut(k) == Somme(SubSeq(nb_blocs_chunks, 1, k - 1)) + 1
Fin(k) == Debut(k) + nb_blocs_chunks[k] - 1

ContenusDe(i, j) == [n \in 1..(j - i + 1) |-> blocs[i + n - 1].contenu_markdown]
MotsDe(i, j) == Somme([n \in 1..(j - i + 1) |-> blocs[i + n - 1].nombre_mots])

\* chunk k is the blocs Debut(k)..Fin(k), in that order, one per line
ChunkEstTranche(k) ==
    /\ nb_blocs_chunks[k] >= 1
    /\ chunks_finaux[k] = JoinNL(ContenusDe(Debut(k), Fin(k)))

\* the multiset of the characters of a str, and of a list of str
CharBag(str) ==
    [c \in {str[n] : n \in 1..Len(str)} |-> Cardinality({n \in 1..Len(str) : str[n] = c})]

RECURSIVE CharBagAll(_)
CharBagAll(strs) ==
    IF strs = <<>> THEN EmptyBag ELSE CharBag(Head(strs)) (+) CharBagAll(Tail(strs))

\* the multiset made of n line feeds
NLBag(n) == IF n > 0 THEN [c \in {NL} |-> n] ELSE EmptyBag

----------------------------------------------------------------------------
(* Claims on _regrouper_blocs_en_chunks *)

\* C1: every input bloc's contenu_markdown is in exactly one output chunk and the
\* chunks read in order give the blocs in input order: the chunks are the "\n"-joins
\* of consecutive slices of blocs that together cover blocs exactly once, so that
\* joining the chunks gives the join of all the contents.
C1_BlocsPreservedInOrder ==
    Fini =>
        /\ Len(nb_blocs_chunks) = Len(chunks_finaux)
        /\ \A k \in 1..Len(chunks_finaux) : ChunkEstTranche(k)
        /\ Somme(nb_blocs_chunks) = Len(blocs)
        /\ JoinNL(chunks_finaux) = JoinNL(ContenusDe(1, Len(blocs)))

C1_Witness ==
    /\ Fini
    /\ Len(blocs) = 3
    /\ Len(chunks_finaux) = 2
    /\ nb_blocs_chunks = <<2, 1>>
    /\ blocs[1].contenu_markdown # blocs[2].contenu_markdown

\* C2: no chunk returned is the empty string, for any list of blocs (a bloc of zero
\* words with an empty contenu_markdown included) and any budget.
C2_NoEmptyChunk ==
    (Fini /\ \A i \in 1..Len(blocs) :
                 blocs[i].contenu_markdown = <<>> => blocs[i].nombre_mots = 0)
        => \A k \in 1..Len(chunks_finaux) : chunks_finaux[k] # <<>>

\* C3: a bloc whose nombre_mots exceeds the budget is a chunk of its own, equal to
\* its contenu_markdown; the chunk before it holds the blocs accumulated before it
\* and the chunk after it starts with the bloc that follows it.
C3_GiantBlockIsolated ==
    Fini =>
        \A i \in 1..Len(blocs) :
            EstGeant(blocs[i], mots_par_chunk) =>
                \E k \in 1..Len(chunks_finaux) :
                    /\ Debut(k) = i
                    /\ nb_blocs_chunks[k] = 1
                    /\ chunks_finaux[k] = blocs[i].contenu_markdown
                    /\ (i > 1) => (k > 1 /\ Fin(k - 1) = i - 1 /\ ChunkEstTranche(k - 1))
                    /\ (i < Len(blocs)) =>
                           (k < Len(chunks_finaux) /\ Debut(k + 1) = i + 1
                            /\ ChunkEstTranche(k + 1))

C3_Witness ==
    /\ Fini
    /\ Len(blocs) = 3
    /\ ~EstGeant(blocs[1], mots_par_chunk)
    /\ EstGeant(blocs[2], mots_par_chunk)
    /\ ~EstGeant(blocs[3], mots_par_chunk)
    /\ blocs[2].contenu_markdown = <<"b", NL, "c">>
    /\ Len(chunks_finaux) = 3

\* C4: a chunk made of two or more blocs has a total nombre_mots of at most the
\* budget; only a chunk made of a single bloc can exceed it.
C4_MultiBlockChunkWithinBudget ==
    \A k \in 1..Len(nb_blocs_chunks) :
        nb_blocs_chunks[k] >= 2 => MotsDe(Debut(k), Fin(k)) <= mots_par_chunk

C4_Witness ==
    /\ Fini
    /\ \E k \in 1..Len(nb_blocs_chunks) :
          nb_blocs_chunks[k] >= 2 /\ MotsDe(Debut(k), Fin(k)) = mots_par_chunk
    /\ \E k \in 1..Len(nb_blocs_chunks) :
          nb_blocs_chunks[k] = 1 /\ MotsDe(Debut(k), Fin(k)) > mots_par_chunk

\* C5: packing is greedy: a chunk starts at a bloc other than the first only if that
\* bloc is oversized, follows an oversized bloc, or would push the word total of the
\* chunk before it above the budget; a non-empty input whose total is within the
\* budget gives exactly one chunk and an empty input gives no chunk.
C5_GreedyPacking ==
    Fini =>
        /\ \A k \in 2..Len(chunks_finaux) :
              \/ EstGeant(blocs[Debut(k)], mots_par_chunk)
              \/ EstGeant(blocs[Debut(k) - 1], mots_par_chunk)
              \/ MotsDe(Debut(k - 1), Fin(k - 1)) + blocs[Debut(k)].nombre_mots
                     > mots_par_chunk
        /\ (blocs # <<>> /\ MotsDe(1, Len(blocs)) <= mots_par_chunk)
              => Len(chunks_finaux) = 1
        /\ blocs = <<>> => chunks_finaux = <<>>

C5_Witness ==
    /\ Fini
    /\ Len(blocs) = 3
    /\ MotsDe(1, 3) = mots_par_chunk
    /\ blocs[2].nombre_mots > 0
    /\ Len(chunks_finaux) = 1

\* C6 as stated: the multiset of characters across all chunks equals the multiset of
\* characters across all input contenu_markdown.
C6_SameCharacters ==
    Fini => CharBagAll(chunks_finaux) = CharBagAll(ContenusDe(1, Len(blocs)))

\* C6 amended: the chunks hold the characters of the input contents plus one "\n"
\* for every bloc that is joined to the bloc before it inside a chunk, that is
\* len(blocs) - len(chunks) line feeds.
C6_SameCharactersPlusJoins ==
    Fini => CharBagAll(chunks_finaux) =
               CharBagAll(ContenusDe(1, Len(blocs)))
                   (+) NLBag(Len(blocs) - Len(chunks_finaux))

C6_Witness ==
    /\ Fini
    /\ Len(blocs) = 3
    /\ Len(chunks_finaux) = 2
    /\ \A i \in 1..3 : blocs[i].contenu_markdown # <<>>

----------------------------------------------------------------------------
(* Characters *)

Majuscules == << "A","B","C","D","E","F","G","H","I","J","K","L","M",
                 "N","O","P","Q","R","S","T","U","V","W","X","Y","Z" >>
Minuscules == << "a","b","c","d","e","f","g","h","i","j","k","l","m",
                 "n","o","p","q","r","s","t","u","v","w","x","y","z" >>

RangDe(c, alphabet) == CHOOSE n \in 1..Len(alphabet) : alphabet[n] = c
EstDans(c, alphabet) == \E n \in 1..Len(alphabet) : alphabet[n] = c

\* str.lower() and str.upper() on one character
LowerChar(c) == IF EstDans(c, Majuscules) THEN Minuscules[RangDe(c, Majuscules)] ELSE c
UpperChar(c) == IF EstDans(c, Minuscules) THEN Majuscules[RangDe(c, Minuscules)] ELSE c

\* str.lower()
Lower(str) == [n \in 1..Len(str) |-> LowerChar(str[n])]

\* what str.strip(), str.split() and the regex class \s treat as whitespace
Blancs == {" ", "\t", NL}
\* the regex class \d
Chiffres == {"0", "1", "2", "3", "4", "5", "6", "7", "8", "9"}
\* the regex class [A-Z]
ClasseAZ == {Majuscules[n] : n \in 1..Len(Majuscules)}
\* the regex class [IVXLCDM]
ClasseRomain == {"I", "V", "X", "L", "C", "D", "M"}

RECURSIVE LStrip(_)
LStrip(str) ==
    IF str # <<>> /\ Head(str) \in Blancs THEN LStrip(Tail(str)) ELSE str

RECURSIVE RStrip(_)
RStrip(str) ==
    IF str # <<>> /\ str[Len(str)] \in Blancs
      THEN RStrip(SubSeq(str, 1, Len(str) - 1)) ELSE str

\* str.strip()
Strip(str) == RStrip(LStrip(str))

\* len(str.split()): the number of maximal runs of non-whitespace characters
NbMots(str) ==
    Cardinality({n \in 1..Len(str) :
                    str[n] \notin Blancs /\ (n = 1 \/ str[n - 1] \in Blancs)})

\* str.endswith(c) for a one-character c
EndsWith(str, c) == str # <<>> /\ str[Len(str)] = c

\* a character matches a regex class, with or without re.IGNORECASE
DansClasse(c, classe, ignorecase) ==
    \/ c \in classe
    \/ ignorecase /\ (UpperChar(c) \in classe \/ LowerChar(c) \in classe)

----------------------------------------------------------------------------
(* _est_un_titre_probable *)

\* len(text.split()) >= 15
SeuilMots == 15

\* Run.bold is tri-state: True, False or None (inherited)
Gras == {"True", "False", "None"}
\* truth value of run.bold
Vrai(b) == b = "True"

\* a text of n words "m m ... m"
RECURSIVE MotsRepetes(_)
MotsRepetes(n) == IF n <= 1 THEN <<"m">> ELSE <<"m", " ">> \o MotsRepetes(n - 1)

\* the run texts paragraphs are built from
TextesRun ==
    { <<" ">>, <<"T">>, <<" ", "m">>, <<"2", ".">>, <<"2", ".", "1">>,
      <<"A", ".">>, <<"a", ".">>, <<"I", "V", ".">>, <<"i", "v", ".">>,
      <<"A", "B", ".">>, MotsRepetes(SeuilMots - 1) }

\* A paragraph is the sequence of its inline items. An item with run = TRUE is a
\* w:r child, listed by paragraph.runs; an item with run = FALSE is a hyperlink,
\* whose text is part of paragraph.text but which paragraph.runs does not list.
Items ==
    [text : TextesRun, bold : Gras, run : {TRUE}]
        \cup [text : {<<"T">>}, bold : {"None"}, run : {FALSE}]

Paragraphes == UNION { [1..n -> Items] : n \in 0..MaxItems }

\* paragraph.text
TexteDe(p) == Concat([n \in 1..Len(p) |-> p[n].text])

\* paragraph.runs
EstUnRun(item) == item.run
RunsDe(p) == SelectSeq(p, EstUnRun)

\* mutant of AUnTexte: every run that has any text is kept, blank or not
AUnTexte_SansStrip(run) == run.text # <<>>

\* run.text.strip() is truthy
AUnTexte(run) == Strip(run.text) # <<>>

\* [run for run in paragraph.runs if run.text.strip()]
RunsAvecTexte(p) == SelectSeq(RunsDe(p), AUnTexte)

\* all(run.bold for run in runs_with_text)
TousGras(runs) == \A n \in 1..Len(runs) : Vrai(runs[n].bold)

\* re.match(r"^((\d+)|([A-Z])|([IVXLCDM]+))\.\s", text, flags)
MatchNumerotation(text, ignorecase) ==
    \E n \in 1..(Len(text) - 2) :
        /\ \/ \A i \in 1..n : text[i] \in Chiffres
           \/ n = 1 /\ DansClasse(text[1], ClasseAZ, ignorecase)
           \/ \A i \in 1..n : DansClasse(text[i], ClasseRomain, ignorecase)
        /\ text[n + 1] = "."
        /\ text[n + 2] \in Blancs

\* re.match(r"^\d+(\.\d+)+\.?\s", text)
MatchSousNumerotation(text) ==
    \E n \in 3..Len(text) :
        /\ text[1] \in Chiffres /\ text[n] \in Chiffres
        /\ \A i \in 1..n : text[i] \in Chiffres \cup {"."}
        /\ \A i \in 1..(n - 1) : ~(text[i] = "." /\ text[i + 1] = ".")
        /\ \E i \in 1..n : text[i] = "."
        /\ \/ n + 1 <= Len(text) /\ text[n + 1] \in Blancs
           \/ n + 2 <= Len(text) /\ text[n + 1] = "." /\ text[n + 2] \in Blancs

\* mutant of MatchTitreNiveau1: re.IGNORECASE is not passed
MatchTitreNiveau1_SensibleCasse(text) == MatchNumerotation(text, FALSE)

\* the first re.match of _est_un_titre_probable, with re.IGNORECASE
MatchTitreNiveau1(text) == MatchNumerotation(text, TRUE)

\* _est_un_titre_probable(paragraph): None, or the level 1 or 2
EstUnTitreProbable(p) ==
    LET text == Strip(TexteDe(p))
        runs_with_text == RunsAvecTexte(p)
    IN  IF text = <<>> THEN None
        ELSE IF NbMots(text) >= SeuilMots THEN None
        ELSE IF EndsWith(text, ".") THEN None
        ELSE IF runs_with_text = <<>> THEN None
        ELSE IF ~TousGras(runs_with_text) THEN None
        ELSE IF MatchTitreNiveau1(text) THEN Some(1)
        ELSE IF MatchSousNumerotation(text) THEN Some(2)
        ELSE Some(2)

InitTitre ==
    /\ pc = "titre"
    /\ SectionInactif
    /\ LotInactif
    /\ ProviderInactif
    /\ DecoupeInactif
    /\ AppInactif
    /\ ChunkInactif
    /\ ImportInactif
    /\ MarkdownInactif
    /\ BlocsInactif
    /\ paragraph \in Paragraphes
    /\ resultat_titre = None

\* the call _est_un_titre_probable(paragraph) returns
AppelerTitre ==
    /\ pc = "titre"
    /\ resultat_titre' = EstUnTitreProbable(paragraph)
    /\ pc' = "fini_titre"
    /\ UNCHANGED <<paragraph, horsTitre>>

NextTitre == AppelerTitre

SpecTitre == InitTitre /\ [][NextTitre]_vars

----------------------------------------------------------------------------
(* Claims on _est_un_titre_probable *)

TitreFini == pc = "fini_titre"

\* the stripped text of the paragraph
TexteTitre == Strip(TexteDe(paragraph))

\* positions of the runs of the paragraph that hold a non-whitespace character
RunsNonBlancs ==
    {n \in 1..Len(paragraph) :
        paragraph[n].run /\ \E i \in 1..Len(paragraph[n].text) :
                                paragraph[n].text[i] \notin Blancs}

\* positions of the runs of the paragraph made of whitespace only
RunsBlancs == {n \in 1..Len(paragraph) : paragraph[n].run} \ RunsNonBlancs

\* the paragraph with the bold attribute of its whitespace-only runs set to b
AvecGrasDesBlancs(b) ==
    [n \in 1..Len(paragraph) |->
        IF n \in RunsBlancs THEN [paragraph[n] EXCEPT !.bold = b] ELSE paragraph[n]]

\* one of the five rejection rules applies
EstRejete ==
    \/ TexteTitre = <<>>
    \/ NbMots(TexteTitre) >= SeuilMots
    \/ TexteTitre[Len(TexteTitre)] = "."
    \/ RunsNonBlancs = {}
    \/ \E n \in RunsNonBlancs : paragraph[n].bold # "True"

CommenceParNumero(text, lettres, romains) ==
    \E n \in 1..(Len(text) - 2) :
        /\ \/ \A i \in 1..n : text[i] \in Chiffres
           \/ n = 1 /\ text[1] \in lettres
           \/ \A i \in 1..n : text[i] \in romains
        /\ text[n + 1] = "."
        /\ text[n + 2] \in Blancs

LettresMinuscules == {Minuscules[n] : n \in 1..Len(Minuscules)}
RomainsMinuscules == {"i", "v", "x", "l", "c", "d", "m"}

\* C8 as stated: for a paragraph that passes every rejection rule the result is
\* level 1 exactly when the text starts with a digit sequence, a single uppercase
\* letter A-Z or an uppercase Roman numeral, followed by '.' and a whitespace, and
\* level 2 otherwise; the result is always None, 1 or 2.
C8_LevelOneIffUppercaseNumbering ==
    TitreFini =>
        /\ resultat_titre \in {None, Some(1), Some(2)}
        /\ ~EstRejete =>
              resultat_titre =
                  IF CommenceParNumero(TexteTitre, ClasseAZ, ClasseRomain)
                    THEN Some(1) ELSE Some(2)

\* C8 amended: the numbering prefix is matched case-insensitively: the single
\* letter and the Roman numeral may be in either case.
C8_LevelOneIffNumbering ==
    TitreFini =>
        /\ resultat_titre \in {None, Some(1), Some(2)}
        /\ ~EstRejete =>
              resultat_titre =
                  IF CommenceParNumero(TexteTitre, ClasseAZ \cup LettresMinuscules,
                                       ClasseRomain \cup RomainsMinuscules)
                    THEN Some(1) ELSE Some(2)

\* "iv. m", all bold: a lowercase Roman numeral gives level 1
C8_Witness ==
    /\ TitreFini
    /\ ~EstRejete
    /\ TexteTitre = <<"i", "v", ".", " ", "m">>
    /\ resultat_titre = Some(1)

----------------------------------------------------------------------------
(* analyser_document, analyser_docx, analyser_pdf *)

MOTS_PAR_PAGE == 500
TAILLE_CIBLE_PAGES == 15

\* str.endswith(suffixe)
EndsWithStr(str, suffixe) ==
    /\ Len(str) >= Len(suffixe)
    /\ SubSeq(str, Len(str) - Len(suffixe) + 1, Len(str)) = suffixe

\* The exceptions a step inside a try block can raise: OpcError (docx.opc) and
\* an error of any other class, here ValueError. Both derive from Exception.
Exceptions == {"OpcError", "ValueError"}
Bases(e) == {e, "Exception"}
\* isinstance(e, classe), as an except clause tests it
EstInstance(e, classe) == classe \in Bases(e)

\* the file names uploads are drawn from
NomsFichier ==
    { <<"a", ".", "p", "d", "f">>, <<"A", ".", "P", "D", "F">>,
      <<"a", ".", "P", "d", "f">>, <<"a", ".", "d", "o", "c", "x">>,
      <<"A", ".", "D", "O", "C", "X">>, <<"a", ".", "t", "x", "t">>,
      <<"p", "d", "f">>,
      <<"a", ".", "p", "d", "f", ".", "d", "o", "c", "x">>,
      <<"a", ".", "d", "o", "c", "x", ".", "p", "d", "f">> }

\* the blocs _creer_blocs_semantiques makes of a document
BlocsDocument ==
    { [contenu_markdown |-> <<>>, nombre_mots |-> 0],
      [contenu_markdown |-> <<"a">>, nombre_mots |-> 1000],
      [contenu_markdown |-> <<"a">>, nombre_mots |-> 4000],
      [contenu_markdown |-> <<"b", NL, "c">>, nombre_mots |-> 10000] }

\* page.get_text() of a page
TextesPage == { <<>>, <<"x">>, <<"y", NL>> }

\* What the byte stream holds: a DOCX package (whether a paragraph has a heading
\* style, and the blocs its body gives), a PDF (its pages), or neither.
ContenusFichier ==
    [type : {"docx"}, titres : BOOLEAN,
     blocs : UNION { [1..n -> BlocsDocument] : n \in 0..MaxBlocs }]
        \cup [type : {"pdf"}, pages : UNION { [1..n -> TextesPage] : n \in 0..MaxPages }]
        \cup [type : {"illisible"}]

Fichiers == [name : NomsFichier, contenu : ContenusFichier]

InitImport ==
    /\ pc = "analyser_document"
    /\ SectionInactif
    /\ LotInactif
    /\ ProviderInactif
    /\ DecoupeInactif
    /\ AppInactif
    /\ ChunkInactif
    /\ TitreInactif
    /\ MarkdownInactif
    /\ BlocsInactif
    /\ fichier \in Fichiers
    /\ appelant = "aucun"
    /\ strategie = None
    /\ exception = "aucune"
    /\ resultat = None

\* mutant of NomNormalise: the name is compared as it is
NomNormalise_SansLower(name) == name

\* filename = fichier.name.lower()
NomNormalise(name) == Lower(name)

SuffixeDocx == <<".", "d", "o", "c", "x">>
SuffixePdf == <<".", "p", "d", "f">>

\* analyser_document: return analyser_docx(fichier)
DispatchDocx ==
    /\ pc = "analyser_document"
    /\ EndsWithStr(NomNormalise(fichier.name), SuffixeDocx)
    /\ pc' = "docx_seek"
    /\ appelant' = "analyser_docx"
    /\ UNCHANGED <<varsChunk, horsImport, fichier, strategie, exception, resultat>>

\* analyser_document: return analyser_pdf(fichier)
DispatchPdf ==
    /\ pc = "analyser_document"
    /\ ~EndsWithStr(NomNormalise(fichier.name), SuffixeDocx)
    /\ EndsWithStr(NomNormalise(fichier.name), SuffixePdf)
    /\ pc' = "pdf_seek"
    /\ appelant' = "analyser_pdf"
    /\ UNCHANGED <<varsChunk, horsImport, fichier, strategie, exception, resultat>>

\* analyser_document: return [""], "STYLE"
DispatchAutre ==
    /\ pc = "analyser_document"
    /\ ~EndsWithStr(NomNormalise(fichier.name), SuffixeDocx)
    /\ ~EndsWithStr(NomNormalise(fichier.name), SuffixePdf)
    /\ resultat' = Some(<< << <<>> >>, "STYLE" >>)
    /\ pc' = "retour"
    /\ UNCHANGED <<varsChunk, horsImport, fichier, appelant, strategie, exception>>

\* the positions inside the try block of analyser_docx
DansTryDocx ==
    {"docx_seek", "docx_ouvrir", "docx_strategie", "docx_blocs", "regrouper", "boucle"}

\* file_stream.seek(0)
DocxSeek ==
    /\ pc = "docx_seek"
    /\ pc' = "docx_ouvrir"
    /\ UNCHANGED <<varsChunk, horsImport, varsImport>>

\* document = docx.Document(file_stream), on a DOCX package
DocxOuvrir ==
    /\ pc = "docx_ouvrir"
    /\ fichier.contenu.type = "docx"
    /\ pc' = "docx_strategie"
    /\ UNCHANGED <<varsChunk, horsImport, varsImport>>

\* strategie = "STYLE" if styles_contains_heading(document) else "HEURISTIQUE"
DocxStrategie ==
    /\ pc = "docx_strategie"
    /\ strategie' = Some(IF fichier.contenu.titres THEN "STYLE" ELSE "HEURISTIQUE")
    /\ pc' = "docx_blocs"
    /\ UNCHANGED <<varsChunk, horsImport, fichier, appelant, exception, resultat>>

\* blocs = _creer_blocs_semantiques(document, strategie), then the call
\* _regrouper_blocs_en_chunks(blocs, MOTS_PAR_PAGE * TAILLE_CIBLE_PAGES) starts
DocxBlocs ==
    /\ pc = "docx_blocs"
    /\ blocs' = fichier.contenu.blocs
    /\ mots_par_chunk' = MOTS_PAR_PAGE * TAILLE_CIBLE_PAGES
    /\ pc' = "regrouper"
    /\ UNCHANGED <<idx, chunks_finaux, chunk_actuel_contenu, chunk_actuel_mots,
                   nb_blocs_chunks, horsImport, varsImport>>

\* return chunks, strategie
DocxRetour ==
    /\ pc = "fini"
    /\ appelant = "analyser_docx"
    /\ resultat' = Some(<<chunks_finaux, strategie[1]>>)
    /\ pc' = "retour"
    /\ UNCHANGED <<varsChunk, horsImport, fichier, appelant, strategie, exception>>

\* a statement of the try block raises: any of them can, and docx.Document does
\* on a stream that is no DOCX package (OpcError, or an error of the zip layer)
DocxLeve ==
    /\ pc \in DansTryDocx
    /\ appelant = "analyser_docx"
    /\ \E e \in Exceptions : exception' = e
    /\ pc' = "docx_except"
    /\ UNCHANGED <<varsChunk, horsImport, fichier, appelant, strategie, resultat>>

\* mutant of AttrapeDocx: only the except OpcError clause is there
AttrapeDocx_OpcSeulement(e) == EstInstance(e, "OpcError")

\* the except clauses of analyser_docx: except OpcError, then except Exception
AttrapeDocx(e) == EstInstance(e, "OpcError") \/ EstInstance(e, "Exception")

\* an except clause of analyser_docx runs: return [], "HEURISTIQUE"
DocxExcept ==
    /\ pc = "docx_except"
    /\ IF AttrapeDocx(exception)
         THEN resultat' = Some(<< <<>>, "HEURISTIQUE" >>) /\ pc' = "retour"
         ELSE resultat' = resultat /\ pc' = "leve"
    /\ UNCHANGED <<varsChunk, horsImport, fichier, appelant, strategie, exception>>

\* the positions inside the try block of analyser_pdf
DansTryPdf == {"pdf_seek", "pdf_ouvrir", "pdf_texte"}

\* file_stream.seek(0)
PdfSeek ==
    /\ pc = "pdf_seek"
    /\ pc' = "pdf_ouvrir"
    /\ UNCHANGED <<varsChunk, horsImport, varsImport>>

\* fitz.open(stream=file_stream.read(), filetype="pdf"), on a PDF
PdfOuvrir ==
    /\ pc = "pdf_ouvrir"
    /\ fichier.contenu.type = "pdf"
    /\ pc' = "pdf_texte"
    /\ UNCHANGED <<varsChunk, horsImport, varsImport>>

\* full_text = "".join(page.get_text() for page in doc); return [full_text], "IA"
PdfTexte ==
    /\ pc = "pdf_texte"
    /\ resultat' = Some(<< <<Concat(fichier.contenu.pages)>>, "IA" >>)
    /\ pc' = "retour"
    /\ UNCHANGED <<varsChunk, horsImport, fichier, appelant, strategie, exception>>

\* a statement of the try block raises: any of them can, and fitz.open does on a
\* stream that is no PDF
PdfLeve ==
    /\ pc \in DansTryPdf
    /\ \E e \in Exceptions : exception' = e
    /\ pc' = "pdf_except"
    /\ UNCHANGED <<varsChunk, horsImport, fichier, appelant, strategie, resultat>>

\* return [""], "IA": a list of one empty str
ResultatEchecPdf == << << <<>> >>, "IA" >>

\* the except Exception clause of analyser_pdf runs
PdfExcept ==
    /\ pc = "pdf_except"
    /\ IF EstInstance(exception, "Exception")
         THEN resultat' = Some(ResultatEchecPdf) /\ pc' = "retour"
         ELSE resultat' = resultat /\ pc' = "leve"
    /\ UNCHANGED <<varsChunk, horsImport, fichier, appelant, strategie, exception>>

NextImport ==
    \/ DispatchDocx
    \/ DispatchPdf
    \/ DispatchAutre
    \/ DocxSeek
    \/ DocxOuvrir
    \/ DocxStrategie
    \/ DocxBlocs
    \/ NextChunk
    \/ DocxRetour
    \/ DocxLeve
    \/ DocxExcept
    \/ PdfSeek
    \/ PdfOuvrir
    \/ PdfTexte
    \/ PdfLeve
    \/ PdfExcept

SpecImport == InitImport /\ [][NextImport]_vars

----------------------------------------------------------------------------
(* Claims on the import entry points *)

\* the call has returned to the caller of analyser_document
Retour == pc = "retour"
\* an exception has left the import function
Leve == pc = "leve"

\* C9: analyser_docx never propagates an exception: when an OpcError or any other
\* error is raised while rewinding, opening, walking or chunking the document, it
\* returns the empty result ([], "HEURISTIQUE").
C9_DocxNeverRaises ==
    appelant = "analyser_docx" =>
        /\ ~Leve
        /\ (Retour /\ exception # "aucune") => resultat = Some(<< <<>>, "HEURISTIQUE" >>)
        /\ Retour => resultat # None

\* an error that is no OpcError, raised after the STYLE strategy was chosen and while
\* the blocs were being regrouped
C9_Witness ==
    /\ Retour
    /\ appelant = "analyser_docx"
    /\ exception = "ValueError"
    /\ strategie = Some("STYLE")
    /\ idx > 0
    /\ resultat = Some(<< <<>>, "HEURISTIQUE" >>)

\* the file name ends in .pdf, whatever the case of its letters
NomEnPdf ==
    LET name == fichier.name
        n == Len(name)
    IN  /\ n >= 4
        /\ name[n - 3] = "."
        /\ name[n - 2] \in {"p", "P"}
        /\ name[n - 1] \in {"d", "D"}
        /\ name[n] \in {"f", "F"}

\* C10: for a file whose name ends in .pdf (case-insensitive), parseable or not,
\* analyser_document raises nothing and returns a list of exactly one string with
\* the strategy "IA"; the string is empty when the extraction failed.
C10_PdfGivesOneString ==
    (pc # "analyser_document" /\ NomEnPdf) =>
        /\ ~Leve
        /\ appelant = "analyser_pdf"
        /\ Retour =>
              /\ resultat # None
              /\ resultat[1][2] = "IA"
              /\ Len(resultat[1][1]) = 1
              /\ exception # "aucune" => resultat[1][1][1] = <<>>

\* an upper-case name and a PDF of two pages
C10_Witness ==
    /\ Retour
    /\ fichier.name = <<"A", ".", "P", "D", "F">>
    /\ fichier.contenu.type = "pdf"
    /\ exception = "aucune"
    /\ resultat = Some(<< << <<"x", "y", NL>> >>, "IA" >>)

----------------------------------------------------------------------------
(* exporter.py: MarkdownToDocxConverter                                    *)
(*                                                                         *)
(* The Markdown source is kept as the sequence of its blocks, each block   *)
(* as the sequence of its inline pieces; Brut gives the str itself.        *)
(* Convert is what md.Markdown(extensions=["fenced_code", "tables"])       *)
(* followed by BeautifulSoup(html, "lxml") makes of each block.            *)

MaxElems == 2      \* most blocks in a Markdown source
MaxCells == 2      \* most cells in a table row

\* the one character U+0001, a control character that XML does not allow
CTRL == "\\x01"

\* python-docx (lxml) accepts a str as the text of a run
XMLCompatible(str) == \A n \in 1..Len(str) : str[n] # CTRL

\* inline pieces of the source: plain text, **x**, *x*, ***x***
Inline(kind, str) == [kind |-> kind, text |-> str]

Inlines ==
    { Inline("texte", <<"x">>), Inline("gras", <<"x">>), Inline("italique", <<"x">>),
      Inline("grasitalique", <<"x">>), Inline("texte", <<CTRL>>) }

\* the rows of a table: each cell holds one inline piece, a or **b** in turn
CelluleDe(c) == IF c % 2 = 1 THEN Inline("texte", <<"a">>) ELSE Inline("gras", <<"b">>)
Lignes == { [c \in 1..n |-> CelluleDe(c)] : n \in 1..MaxCells }

\* blocks of the source: a paragraph, a "# " heading, a "* " list item, a pipe
\* table (header row, separator row, one body row), a raw <table> of <tr> rows
Bloc(kind, inline, lignes) == [kind |-> kind, inline |-> inline, lignes |-> lignes]

BlocsMarkdown ==
    { Bloc("paragraphe", <<i>>, <<>>) : i \in Inlines }
        \cup { Bloc("paragraphe", <<Inline("texte", <<"x">>), Inline("gras", <<"x">>)>>, <<>>),
               Bloc("titre", <<Inline("texte", <<"x">>)>>, <<>>),
               Bloc("liste", <<Inline("italique", <<"x">>)>>, <<>>) }
        \cup { Bloc("tableau", <<>>, q) :
                 q \in { r \in Lignes \X Lignes : Len(r[1]) = Len(r[2]) } }
        \cup { Bloc("html_table", <<>>, <<h, l>>) : h \in Lignes, l \in Lignes }

TextesMarkdown == UNION { [1..n -> BlocsMarkdown] : n \in 0..MaxElems }

\* the source str of an inline piece
BrutInline(i) ==
    CASE i.kind = "gras" -> <<"*", "*">> \o i.text \o <<"*", "*">>
      [] i.kind = "italique" -> <<"*">> \o i.text \o <<"*">>
      [] i.kind = "grasitalique" -> <<"*", "*", "*">> \o i.text \o <<"*", "*", "*">>
      [] OTHER -> i.text

BrutInlines(inline) == Concat([n \in 1..Len(inline) |-> BrutInline(inline[n])])

\* "| a | b |"
BrutLigne(ligne) ==
    <<"|">> \o Concat([n \in 1..Len(ligne) |-> <<" ">> \o BrutInline(ligne[n]) \o <<" ", "|">>])

\* "| --- | --- |"
BrutSeparateur(ligne) ==
    <<"|">> \o Concat([n \in 1..Len(ligne) |-> <<" ", "-", "-", "-", " ", "|">>])

\* "<tr><td>a</td></tr>"
BrutTr(ligne) ==
    <<"<tr>">> \o Concat([n \in 1..Len(ligne) |->
                              <<"<td>">> \o BrutInline(ligne[n]) \o <<"</td>">>])
        \o <<"</tr>">>

BrutBloc(b) ==
    CASE b.kind = "titre" -> <<"#", " ">> \o BrutInlines(b.inline)
      [] b.kind = "liste" -> <<"*", " ">> \o BrutInlines(b.inline)
      [] b.kind = "tableau" ->
            JoinNL(<<BrutLigne(b.lignes[1]), BrutSeparateur(b.lignes[1])>>
                     \o [n \in 1..(Len(b.lignes) - 1) |-> BrutLigne(b.lignes[n + 1])])
      [] b.kind = "html_table" ->
            <<"<table>">> \o Concat([n \in 1..Len(b.lignes) |-> BrutTr(b.lignes[n])])
                \o <<"</table>">>
      [] OTHER -> BrutInlines(b.inline)

\* the str text: the blocks, a blank line between two of them
Brut(source) ==
    Concat([n \in 1..Len(source) |->
               (IF n > 1 THEN <<NL, NL>> ELSE <<>>) \o BrutBloc(source[n])])

\* the tree BeautifulSoup builds: a Tag with its children, or a NavigableString
Tag(name, children) == [name |-> name, text |-> <<>>, children |-> children]
NavigableString(str) == [name |-> "#text", text |-> str, children |-> <<>>]

\* Python-Markdown: **x** is <strong>, *x* is <em>, ***x*** is <strong><em>.
\* libxml2 reports a character that is not allowed and either
\* drops it or hands it on (garde).
ConvertInline(i, garde) ==
    CASE i.kind = "gras" -> <<Tag("strong", <<NavigableString(i.text)>>)>>
      [] i.kind = "italique" -> <<Tag("em", <<NavigableString(i.text)>>)>>
      [] i.kind = "grasitalique" ->
            <<Tag("strong", <<Tag("em", <<NavigableString(i.text)>>)>>)>>
      [] OTHER -> IF XMLCompatible(i.text) \/ garde
                  THEN <<NavigableString(i.text)>> ELSE <<>>

ConvertInlines(inline, garde) ==
    Concat([n \in 1..Len(inline) |-> ConvertInline(inline[n], garde)])

\* <tr> of <th> or <td> cells
ConvertLigne(ligne, cellule, garde) ==
    Tag("tr", [n \in 1..Len(ligne) |-> Tag(cellule, ConvertInline(ligne[n], garde))])

\* a <tr> of a raw block: Markdown syntax inside it is left as text
ConvertTr(ligne) ==
    Tag("tr", [n \in 1..Len(ligne) |-> Tag("td", <<NavigableString(BrutInline(ligne[n]))>>)])

\* The tables extension puts the header row in <thead> and the other rows in
\* <tbody>; a raw <table> block is handed on as written, its <tr> rows directly
\* under <table> (libxml2 adds no <tbody>).
ConvertBloc(b, garde) ==
    CASE b.kind = "titre" -> Tag("h1", ConvertInlines(b.inline, garde))
      [] b.kind = "liste" -> Tag("ul", <<Tag("li", ConvertInlines(b.inline, garde))>>)
      [] b.kind = "tableau" ->
            Tag("table",
                <<Tag("thead", <<ConvertLigne(b.lignes[1], "th", garde)>>),
                  Tag("tbody", [n \in 1..(Len(b.lignes) - 1) |->
                                   ConvertLigne(b.lignes[n + 1], "td", garde)])>>)
      [] b.kind = "html_table" ->
            Tag("table", [n \in 1..Len(b.lignes) |-> ConvertTr(b.lignes[n])])
      [] OTHER -> Tag("p", ConvertInlines(b.inline, garde))

\* soup.body.find_all(recursive=False) of the converted source
Convert(source, garde) == [n \in 1..Len(source) |-> ConvertBloc(source[n], garde)]

RECURSIVE GetText(_)
\* Tag.get_text()
GetText(node) ==
    IF node.name = "#text" THEN node.text
    ELSE Concat([n \in 1..Len(node.children) |-> GetText(node.children[n])])

\* elem.find_all(names, recursive=False)
FindAll(elem, names) == SelectSeq(elem.children, LAMBDA child : child.name \in names)

\* style values: the colours a style dict can hold under "font_color_rgb", each
\* with its Python type
Couleur(type, valeur) == [type |-> type, valeur |-> valeur]

CouleursValides ==
    { Couleur("str", <<"F", "F", "0", "0", "0", "0">>),
      Couleur("tuple", <<"255", "0", "0">>) }

CouleursMalFormees ==
    { Couleur("str", <<"G", "G", "0", "0", "0", "0">>),
      Couleur("str", <<"#", "F", "F", "0", "0", "0", "0">>),
      Couleur("int", <<"255">>),
      Couleur("list", <<"255", "0">>) }

ChiffresHexa ==
    Chiffres \cup {"A", "B", "C", "D", "E", "F", "a", "b", "c", "d", "e", "f"}

\* int(str, 16) returns a value in 0..255: one or two hexadecimal digits
EstOctetHexa(str) == Len(str) \in 1..2 /\ \A n \in 1..Len(str) : str[n] \in ChiffresHexa

\* str[a:b] for 0 <= a <= b
Tranche(str, a, b) ==
    IF a >= Len(str) THEN <<>>
    ELSE SubSeq(str, a + 1, IF b < Len(str) THEN b ELSE Len(str))

\* the two hexadecimal digits of a colour component
HexaDe(composante) ==
    CASE composante = "255" -> <<"F", "F">>
      [] composante = "0" -> <<"0", "0">>

\* RGBColor.from_string(rgb_hex_str): the exception it raises, or the colour as
\* six upper-case hexadecimal digits
FromString(c) ==
    IF c.type # "str" THEN [leve |-> "TypeError", rgb |-> None]
    ELSE IF /\ EstOctetHexa(Tranche(c.valeur, 0, 2))
            /\ EstOctetHexa(Tranche(c.valeur, 2, 4))
            /\ EstOctetHexa(Tranche(c.valeur, 4, Len(c.valeur)))
         THEN [leve |-> "aucune",
               rgb |-> Some([n \in 1..Len(c.valeur) |-> UpperChar(c.valeur[n])])]
         ELSE [leve |-> "ValueError", rgb |-> None]

\* RGBColor(*color)
RGBColorEtoile(c) ==
    IF c.type \in {"tuple", "list"} /\ Len(c.valeur) = 3
    THEN [leve |-> "aucune",
          rgb |-> Some(Concat([n \in 1..3 |-> HexaDe(c.valeur[n])]))]
    ELSE [leve |-> "TypeError", rgb |-> None]

\* a run of the document
Run(str, font_name, font_size, rgb, bold, italic) ==
    [text |-> str, font_name |-> font_name, font_size |-> font_size,
     rgb |-> rgb, bold |-> bold, italic |-> italic]

\* {**self.styles.get(style_name, {}), **(style_overrides or {})}
Fusion(base, style_overrides) ==
    [k \in DOMAIN base |->
        IF style_overrides[k] # None THEN style_overrides[k] ELSE base[k]]

\* style.get(key, False) as the value of run.bold or run.italic
DrapeauOuFaux(valeur) ==
    IF valeur = None THEN "False" ELSE IF valeur[1] THEN "True" ELSE "False"

\* the try block of _apply_style: except Exception: pass
CouleurAppliquee(couleur) ==
    LET essai == IF couleur.type = "str" THEN FromString(couleur)
                 ELSE RGBColorEtoile(couleur)
    IN  [leve |-> "aucune", rgb |-> essai.rgb]

\* _apply_style(run, style_overrides) on a new run of text str: the run it
\* leaves and the exception it raises
ApplyStyle(str, style_overrides) ==
    LET style == Fusion(styles, style_overrides)
        c == IF style.font_color_rgb = None THEN [leve |-> "aucune", rgb |-> None]
             ELSE CouleurAppliquee(style.font_color_rgb[1])
    IN  [leve |-> c.leve,
         run |-> IF c.leve = "aucune"
                 THEN Run(str, style.font_name, style.font_size, c.rgb,
                          DrapeauOuFaux(style.is_bold), DrapeauOuFaux(style.is_italic))
                 ELSE Run(str, style.font_name, style.font_size, None, "None", "None")]

\* self.styles as the interface builds it (app.py hands a tuple from hex_to_rgb)
\* or as a caller may fill it
StylesInterface ==
    [font_name : {Some("Arial")}, font_size : {Some(12)},
     font_color_rgb : {None} \cup { Some(c) : c \in CouleursValides \cup CouleursMalFormees },
     is_bold : {None, Some(TRUE)}, is_italic : {None}]

\* The walk of an element is the sequence of calls it makes on the document:
\* add_paragraph, add_heading, add_table, table.cell and add_run.
Op(op, style, rows, cols, cell_idx, run, leve) ==
    [op |-> op, style |-> style, rows |-> rows, cols |-> cols, idx |-> cell_idx,
     run |-> run, leve |-> leve]

RunVide == Run(<<>>, None, None, None, "None", "None")

\* the names of the styles of the default template of python-docx
Normal == <<"N", "o", "r", "m", "a", "l">>
ListBullet == <<"L", "i", "s", "t", " ", "B", "u", "l", "l", "e", "t">>
ListNumber == <<"L", "i", "s", "t", " ", "N", "u", "m", "b", "e", "r">>
NormalTable == <<"N", "o", "r", "m", "a", "l", " ", "T", "a", "b", "l", "e">>
Heading(level) ==
    <<"H", "e", "a", "d", "i", "n", "g", " ">> \o <<<<"1", "2", "3", "4", "5", "6">>[level]>>

\* self.doc.add_paragraph(style=list_style) if list_style else self.doc.add_paragraph()
AddParagraph(list_style) ==
    Op("add_paragraph", IF list_style = None THEN Normal ELSE list_style[1],
       0, 0, 0, RunVide, "aucune")

\* self.doc.add_heading(level=level)
AddHeading(level) ==
    Op("add_heading", Heading(level), 0, 0, 0, RunVide, "aucune")

\* self.doc.add_table(rows=len(rows), cols=cols)
AddTable(rows, cols) == Op("add_table", NormalTable, rows, cols, 0, RunVide, "aucune")

\* table.cell(r_idx, c_idx).paragraphs[0]
Cell(r_idx, c_idx, cols) == Op("cell", <<>>, 0, 0, c_idx + (r_idx * cols), RunVide, "aucune")

\* run = paragraph.add_run(str); self._apply_style(run, style_overrides)
AddRun(str, style_overrides) ==
    LET r == ApplyStyle(str, style_overrides)
    IN  Op("add_run", <<>>, 0, 0, 0, r.run, r.leve)

\* ... then run.font.name = "Consolas"
AddRunConsolas(str) ==
    LET r == ApplyStyle(str, StyleVide)
    IN  Op("add_run", <<>>, 0, 0, 0,
           IF r.leve = "aucune" THEN [r.run EXCEPT !.font_name = Some("Consolas")] ELSE r.run,
           r.leve)

\* child.name in {"strong", "b"}
EnGras(child) == child.name \in {"strong", "b"}

RECURSIVE AddInline(_)
\* _add_inline(paragraph, node)
AddInline(node) ==
    IF node.name = "#text"
    THEN IF node.text # <<>> THEN <<AddRun(node.text, StyleVide)>> ELSE <<>>
    ELSE Concat([n \in 1..Len(node.children) |->
            LET child == node.children[n]
            IN  IF child.name = "#text"
                THEN IF child.text # <<>> THEN <<AddRun(child.text, StyleVide)>> ELSE <<>>
                ELSE IF EnGras(child)
                THEN <<AddRun(GetText(child), [StyleVide EXCEPT !.is_bold = Some(TRUE)])>>
                ELSE IF child.name \in {"em", "i"}
                THEN <<AddRun(GetText(child), [StyleVide EXCEPT !.is_italic = Some(TRUE)])>>
                ELSE IF child.name = "code" THEN <<AddRunConsolas(GetText(child))>>
                ELSE IF child.name = "a" THEN <<AddRun(GetText(child), StyleVide)>>
                ELSE AddInline(child)])

\* int(tag[1])
NiveauDe(tag) ==
    CASE tag = "h1" -> 1 [] tag = "h2" -> 2 [] tag = "h3" -> 3
      [] tag = "h4" -> 4 [] tag = "h5" -> 5 [] tag = "h6" -> 6

\* rows = elem.find_all("tr", recursive=False)
LignesDe(elem) == FindAll(elem, {"tr"})

RECURSIVE ProcessElement(_, _)
\* _process_element(elem, list_style)
ProcessElement(elem, list_style) ==
    IF elem.name = "#text"
    THEN IF Strip(elem.text) # <<>>
         THEN <<AddParagraph(list_style), AddRun(Strip(elem.text), StyleVide)>>
         ELSE <<>>
    ELSE IF elem.name \in {"p", "li"}
    THEN <<AddParagraph(list_style)>> \o AddInline(elem)
            \o LET listes == FindAll(elem, {"ul", "ol"})
               IN  Concat([n \in 1..Len(listes) |->
                       ProcessElement(listes[n],
                           Some(IF listes[n].name = "ul" THEN ListBullet ELSE ListNumber))])
    ELSE IF elem.name \in {"h1", "h2", "h3", "h4", "h5", "h6"}
    THEN <<AddHeading(NiveauDe(elem.name))>> \o AddInline(elem)
    ELSE IF elem.name \in {"ul", "ol"}
    THEN LET items == FindAll(elem, {"li"})
         IN  Concat([n \in 1..Len(items) |->
                 ProcessElement(items[n],
                     Some(IF elem.name = "ul" THEN ListBullet ELSE ListNumber))])
    ELSE IF elem.name = "pre"
    THEN <<AddParagraph(None), AddRunConsolas(Strip(GetText(elem)))>>
    ELSE IF elem.name = "table"
    THEN LET rows == LignesDe(elem)
         IN  IF rows = <<>> THEN <<>>
             ELSE LET cols == Len(FindAll(rows[1], {"th", "td"}))
                  IN  <<AddTable(Len(rows), cols)>>
                        \o Concat([r \in 1..Len(rows) |->
                             LET cells == FindAll(rows[r], {"th", "td"})
                             IN  Concat([c \in 1..Len(cells) |->
                                     <<Cell(r - 1, c - 1, cols)>> \o AddInline(cells[c])])])
    ELSE IF Strip(GetText(elem)) # <<>>
         THEN <<AddParagraph(None)>> \o AddInline(elem)
         ELSE <<>>

\* a block item of the document: a paragraph with its runs, or a table with, for
\* each of its rows * cols cells, the paragraphs of the cell as their runs
Item(type, style, runs, rows, cols, cells) ==
    [type |-> type, style |-> style, runs |-> runs, rows |-> rows, cols |-> cols,
     cells |-> cells]

ParagrapheDocx(style, runs) == Item("paragraph", style, runs, 0, 0, <<>>)

\* One call on the document. etat.cible is the paragraph the runs go to: 0 for
\* the last paragraph of the document, k for the first paragraph of cell k - 1
\* of its last table (a new cell holds one empty paragraph).
\* add_run raises ValueError on a text XML does not allow; table.cell raises
\* IndexError past the last cell.
Appliquer(etat, o) ==
    LET d == etat.doc
        dernier == d[Len(d)]
    IN  CASE o.op \in {"add_paragraph", "add_heading"} ->
               [doc |-> Append(d, ParagrapheDocx(o.style, <<>>)), cible |-> 0,
                leve |-> "aucune"]
          [] o.op = "add_table" ->
               [doc |-> Append(d, Item("table", o.style, <<>>, o.rows, o.cols,
                                       [k \in 1..(o.rows * o.cols) |-> << <<>> >>])),
                cible |-> 0, leve |-> "aucune"]
          [] o.op = "cell" ->
               IF o.idx >= dernier.rows * dernier.cols
               THEN [etat EXCEPT !.leve = "IndexError"]
               ELSE [etat EXCEPT !.cible = o.idx + 1]
          [] o.op = "add_run" ->
               IF ~XMLCompatible(o.run.text)
               THEN [etat EXCEPT !.leve = "ValueError"]
               ELSE [doc |-> [d EXCEPT ![Len(d)] =
                                 IF etat.cible = 0
                                 THEN [dernier EXCEPT !.runs = Append(@, o.run)]
                                 ELSE [dernier EXCEPT !.cells[etat.cible][1] =
                                                          Append(@, o.run)]],
                     cible |-> etat.cible,
                     leve |-> o.leve]

RECURSIVE Executer(_, _)
\* the calls of a walk in turn, up to the first one that raises
Executer(etat, ops) ==
    IF ops = <<>> \/ etat.leve # "aucune" THEN etat
    ELSE Executer(Appliquer(etat, Head(ops)), Tail(ops))

\* str(e)
MessageDe(e) ==
    CASE e = "IndexError" -> "list index out of range"
      [] e = "ValueError" -> "All strings must be XML compatible"
      [] OTHER -> e

\* f"[Le formatage de ce bloc a echoue. Contenu original ci-dessous. Erreur : {e}]"
Avertissement(e) ==
    <<"[Le formatage de ce bloc a echoue. Contenu original ci-dessous. Erreur : ",
      MessageDe(e), "]">>

\* warning_run with font.italic = True and font.color.rgb = RGBColor(120, 120, 120)
WarningRun(e) ==
    Run(Avertissement(e), None, None, Some(<<"7", "8", "7", "8", "7", "8">>), "None", "True")

InitMarkdown ==
    /\ pc = "add_markdown"
    /\ SectionInactif
    /\ LotInactif
    /\ ProviderInactif
    /\ DecoupeInactif
    /\ AppInactif
    /\ ChunkInactif
    /\ TitreInactif
    /\ ImportInactif
    /\ BlocsInactif
    /\ texte_markdown \in TextesMarkdown
    /\ styles \in StylesInterface
    /\ doc = <<>>
    /\ restants = <<>>
    /\ erreur = None

\* if not text: return
MdRetourVide ==
    /\ pc = "add_markdown"
    /\ texte_markdown = <<>>
    /\ pc' = "md_retour"
    /\ UNCHANGED <<varsMarkdown, horsMarkdown>>

\* html = md_converter.convert(text); soup = BeautifulSoup(html, "lxml")
MdConvert ==
    /\ pc = "add_markdown"
    /\ texte_markdown # <<>>
    /\ \E garde \in BOOLEAN : restants' = Convert(texte_markdown, garde)
    /\ pc' = "md_walk"
    /\ UNCHANGED <<texte_markdown, styles, doc, erreur, horsMarkdown>>

\* one turn of the for loop: self._process_element(elem); an exception leaves
\* the try block
MdProcessElement ==
    /\ pc = "md_walk"
    /\ restants # <<>>
    /\ LET etat == Executer([doc |-> doc, cible |-> 0, leve |-> "aucune"],
                            ProcessElement(Head(restants), None))
       IN  /\ doc' = etat.doc
           /\ IF etat.leve = "aucune"
              THEN restants' = Tail(restants) /\ pc' = "md_walk" /\ erreur' = erreur
              ELSE restants' = restants /\ pc' = "md_except" /\ erreur' = Some(etat.leve)
    /\ UNCHANGED <<texte_markdown, styles, horsMarkdown>>

\* the for loop is over
MdRetour ==
    /\ pc = "md_walk"
    /\ restants = <<>>
    /\ pc' = "md_retour"
    /\ UNCHANGED <<varsMarkdown, horsMarkdown>>

\* except Exception as e: the warning paragraph, then self.doc.add_paragraph(text),
\* which adds the paragraph and then its run
MdExcept ==
    /\ pc = "md_except"
    /\ LET etat == Executer([doc |-> Append(doc, ParagrapheDocx(Normal, <<WarningRun(erreur[1])>>)),
                             cible |-> 0, leve |-> "aucune"],
                            <<AddParagraph(None),
                              Op("add_run", <<>>, 0, 0, 0,
                                 Run(Brut(texte_markdown), None, None, None, "None", "None"),
                                 "aucune")>>)
       IN  /\ doc' = etat.doc
           /\ pc' = IF etat.leve = "aucune" THEN "md_retour" ELSE "md_leve"
    /\ UNCHANGED <<texte_markdown, styles, restants, erreur, horsMarkdown>>

NextMarkdown ==
    \/ MdRetourVide
    \/ MdConvert
    \/ MdProcessElement
    \/ MdRetour
    \/ MdExcept

SpecMarkdown == InitMarkdown /\ [][NextMarkdown]_vars

----------------------------------------------------------------------------
(* Claims on MarkdownToDocxConverter *)

\* the paragraphs the except branch of add_markdown is meant to leave
ParagrapheAvertissement == ParagrapheDocx(Normal, <<WarningRun(erreur[1])>>)
ParagrapheBrut ==
    ParagrapheDocx(Normal, <<Run(Brut(texte_markdown), None, None, None, "None", "None")>>)

\* C11: add_markdown never raises to its caller; when the conversion or the walk
\* of an element has failed, the document ends with one italic grey warning
\* paragraph that holds the error message and then one paragraph that holds the
\* raw original text, so at least one paragraph was added.
C11_NeverRaisesAndFallsBack ==
    /\ pc # "md_leve"
    /\ (pc = "md_retour" /\ erreur # None) =>
           /\ Len(doc) >= 2
           /\ doc[Len(doc) - 1] = ParagrapheAvertissement
           /\ doc[Len(doc)] = ParagrapheBrut

\* the source is one pipe table
UnSeulTableau ==
    /\ Len(texte_markdown) = 1
    /\ texte_markdown[1].kind = "tableau"

\* the runs _add_inline makes of one inline piece of the source
RunsAttendus(i) ==
    LET r == Executer([doc |-> <<ParagrapheDocx(Normal, <<>>)>>, cible |-> 0, leve |-> "aucune"],
                      AddInline(Tag("td", ConvertInline(i, TRUE))))
    IN  r.doc[1].runs

\* C19: a Markdown table given to add_markdown is rendered as one native table
\* with one row per source row, the header row included, and as many columns as
\* the first row has cells; the inline content of each source cell is rendered
\* into the native cell of the same row and column.
C19_TableRenderedCellByCell ==
    (pc = "md_retour" /\ UnSeulTableau) =>
        LET lignes == texte_markdown[1].lignes
            cols == Len(lignes[1])
        IN  /\ Len(doc) = 1
            /\ doc[1].type = "table"
            /\ doc[1].rows = Len(lignes)
            /\ doc[1].cols = cols
            /\ \A r \in 1..Len(lignes) : \A c \in 1..Len(lignes[r]) :
                   doc[1].cells[(r - 1) * cols + c] = <<RunsAttendus(lignes[r][c])>>

\* the source is one paragraph made of one inline piece
UneSeulePiece ==
    /\ Len(texte_markdown) = 1
    /\ texte_markdown[1].kind = "paragraphe"
    /\ Len(texte_markdown[1].inline) = 1
    /\ XMLCompatible(texte_markdown[1].inline[1].text)

\* C20: text under a strong element is rendered as a bold run and text under an
\* em element as an italic run, at any nesting depth; the text of ***x***, which
\* lies under both, is rendered bold and italic.
C20_EmphasisAtAnyDepth ==
    (pc = "md_retour" /\ UneSeulePiece) =>
        LET piece == texte_markdown[1].inline[1]
        IN  /\ Len(doc) = 1
            /\ Len(doc[1].runs) = 1
            /\ doc[1].runs[1].text = piece.text
            /\ piece.kind \in {"gras", "grasitalique"} => doc[1].runs[1].bold = "True"
            /\ piece.kind \in {"italique", "grasitalique"} => doc[1].runs[1].italic = "True"

----------------------------------------------------------------------------
(* importer.py: analyser_docx from line 213 on, with the walk of            *)
(* styles_contains_heading and _creer_blocs_semantiques over the body of   *)
(* the opened document. The body is a sequence of block items, as the      *)
(* exporter builds them. The blocs of these documents stay far below the   *)
(* budget of 7500 words, so of the steps of _regrouper_blocs_en_chunks     *)
(* only those of a bloc that fits are taken.                               *)

MaxElements == 2   \* most body elements of an imported document

\* the style name "Titre n" of a French template
Titre(level) ==
    <<"T", "i", "t", "r", "e", " ">> \o <<<<"1", "2", "3", "4", "5", "6">>[level]>>

StylesParagraphe == {Normal, ListBullet, Titre(2)} \cup { Heading(n) : n \in 1..6 }

\* a run with direct bold and italic only
RunSimple(str, bold, italic) == Run(str, None, None, None, bold, italic)

\* the runs of the paragraphs of the input documents: none, plain T, bold italic "2. m"
RunsParagraphe ==
    { <<>>,
      <<RunSimple(<<"T">>, "None", "None")>>,
      <<RunSimple(<<"2", ".", " ", "m">>, "True", "True")>> }

\* the table of the input documents: one row, a cell of one paragraph and a cell
\* of two paragraphs
TableauDocx ==
    Item("table", NormalTable, <<>>, 1, 2,
         << << <<RunSimple(<<"a">>, "True", "None")>> >>,
            << <<>>, <<RunSimple(<<"b">>, "None", "True")>> >> >>)

ElementsDocx ==
    { ParagrapheDocx(s, r) : s \in StylesParagraphe, r \in RunsParagraphe }
        \cup {TableauDocx}

DocumentsDocx == UNION { [1..n -> ElementsDocx] : n \in 0..MaxElements }

\* sub in str
Contient(str, sub) ==
    \E k \in 0..(Len(str) - Len(sub)) : SubSeq(str, k + 1, k + Len(sub)) = sub

\* str.replace(c, "") for every c of retires
Sans(str, retires) == SelectSeq(str, LAMBDA c : c \notin retires)

\* sep.join(parts)
RECURSIVE Join(_, _)
Join(sep, parts) ==
    IF parts = <<>> THEN <<>>
    ELSE IF Len(parts) = 1 THEN parts[1]
    ELSE parts[1] \o sep \o Join(sep, Tail(parts))

\* the digit of f"{i}"
ChiffreDe(i) == <<"1", "2", "3", "4", "5", "6", "7", "8", "9">>[i]

MotHeading == <<"h", "e", "a", "d", "i", "n", "g">>
MotTitre == <<"t", "i", "t", "r", "e">>

\* mutant of StylesContainsHeading: only "heading" is looked for
StylesContainsHeading_SansTitre(d) ==
    \E n \in 1..Len(d) :
        d[n].type = "paragraph" /\ Contient(Lower(d[n].style), MotHeading)

\* styles_contains_heading(document): document.paragraphs are the paragraphs of
\* the body, not those of its tables
StylesContainsHeading(d) ==
    \E n \in 1..Len(d) :
        /\ d[n].type = "paragraph"
        /\ \/ Contient(Lower(d[n].style), MotHeading)
           \/ Contient(Lower(d[n].style), MotTitre)

\* the text of a run between the marks of its emphasis
Emphase(run) ==
    IF Vrai(run.bold) /\ Vrai(run.italic)
    THEN <<"*", "*", "*">> \o run.text \o <<"*", "*", "*">>
    ELSE IF Vrai(run.bold) THEN <<"*", "*">> \o run.text \o <<"*", "*">>
    ELSE IF Vrai(run.italic) THEN <<"*">> \o run.text \o <<"*">>
    ELSE run.text

\* contenu: the runs that have a text, each with its emphasis
ContenuDe(runs) ==
    Concat([n \in 1..Len(runs) |->
               IF runs[n].text = <<>> THEN <<>> ELSE Emphase(runs[n])])

\* style_normalized
StyleNormalized(style) == Sans(Lower(style), {" ", "-", "_"})

\* range(1, 5)
NiveauxStyle == 1..4

\* the first i of range(1, 5) with f"heading{i}" or f"titre{i}" in style_normalized
NiveauParStyle(style_normalized) ==
    LET trouves == { i \in NiveauxStyle :
                       \/ Contient(style_normalized, MotHeading \o <<ChiffreDe(i)>>)
                       \/ Contient(style_normalized, MotTitre \o <<ChiffreDe(i)>>) }
    IN  IF trouves = {} THEN None
        ELSE Some(CHOOSE i \in trouves : \A j \in trouves : i <= j)

\* the Paragraph handed to _est_un_titre_probable
ParagraphDe(element) ==
    [n \in 1..Len(element.runs) |->
        [text |-> element.runs[n].text, bold |-> element.runs[n].bold, run |-> TRUE]]

\* heading_level
HeadingLevel(element, strat) ==
    IF strat = "STYLE" THEN NiveauParStyle(StyleNormalized(element.style))
    ELSE EstUnTitreProbable(ParagraphDe(element))

\* the branch of lines 120-126 that computes heading_level
DetecteurDe(strat) == IF strat = "STYLE" THEN "style" ELSE "heuristique"

\* "#" * heading_level
Dieses(level) == [n \in 1..level |-> "#"]

\* finaliser_bloc(): the list blocs it leaves
FinaliserBloc ==
    IF contenu_actuel # <<>>
    THEN LET texte == Strip(JoinNL(contenu_actuel))
         IN  Append(blocs, [niveau_titre |-> niveau_actuel, contenu_markdown |-> texte,
                            nombre_mots |-> NbMots(texte)])
    ELSE blocs

\* the element the for loop is at
Element == document[position + 1]
TexteStripped == Strip(ContenuDe(Element.runs))

InitBlocs ==
    /\ pc = "docx_strategie"
    /\ SectionInactif
    /\ LotInactif
    /\ ProviderInactif
    /\ DecoupeInactif
    /\ AppInactif
    /\ ChunkInactif
    /\ TitreInactif
    /\ MarkdownInactif
    /\ fichier = <<>>
    /\ appelant = "analyser_docx"
    /\ strategie = None
    /\ exception = "aucune"
    /\ resultat = None
    /\ document \in DocumentsDocx
    /\ position = 0
    /\ contenu_actuel = <<>>
    /\ niveau_actuel = 0
    /\ detecteurs = <<>>

\* strategie = "STYLE" if styles_contains_heading(document) else "HEURISTIQUE"
BlocsStrategie ==
    /\ pc = "docx_strategie"
    /\ strategie' = Some(IF StylesContainsHeading(document) THEN "STYLE" ELSE "HEURISTIQUE")
    /\ pc' = "docx_blocs"
    /\ UNCHANGED <<varsChunk, varsBlocs, horsBlocs, fichier, appelant, exception, resultat>>

DansBoucleBlocs == pc = "docx_blocs" /\ position < Len(document)

\* a paragraph without text: contenu_actuel.append(""); continue
BlocsParagrapheVide ==
    /\ DansBoucleBlocs
    /\ Element.type = "paragraph"
    /\ TexteStripped = <<>>
    /\ contenu_actuel' = Append(contenu_actuel, <<>>)
    /\ detecteurs' = Append(detecteurs, [detecteur |-> "aucun", niveau |-> None])
    /\ position' = position + 1
    /\ UNCHANGED <<pc, varsChunk, varsImport, horsBlocs, document, niveau_actuel>>

\* a paragraph with a heading level: finaliser_bloc() and a new bloc
BlocsTitre ==
    /\ DansBoucleBlocs
    /\ Element.type = "paragraph"
    /\ TexteStripped # <<>>
    /\ LET heading_level == HeadingLevel(Element, strategie[1])
       IN  /\ heading_level # None
           /\ blocs' = FinaliserBloc
           /\ contenu_actuel' = <<Dieses(heading_level[1]) \o <<" ">> \o TexteStripped>>
           /\ niveau_actuel' = heading_level[1]
           /\ detecteurs' = Append(detecteurs, [detecteur |-> DetecteurDe(strategie[1]),
                                                niveau |-> heading_level])
    /\ position' = position + 1
    /\ UNCHANGED <<pc, mots_par_chunk, idx, chunks_finaux, chunk_actuel_contenu,
                   chunk_actuel_mots, nb_blocs_chunks, varsImport, horsBlocs, document>>

\* any other paragraph: a list item or plain text
BlocsTexte ==
    /\ DansBoucleBlocs
    /\ Element.type = "paragraph"
    /\ TexteStripped # <<>>
    /\ HeadingLevel(Element, strategie[1]) = None
    /\ contenu_actuel' =
           Append(contenu_actuel,
                  IF Contient(Lower(Element.style), Lower(ListBullet))
                  THEN <<"*", " ">> \o TexteStripped
                  ELSE TexteStripped)
    /\ detecteurs' = Append(detecteurs, [detecteur |-> DetecteurDe(strategie[1]),
                                         niveau |-> None])
    /\ position' = position + 1
    /\ UNCHANGED <<pc, varsChunk, varsImport, horsBlocs, document, niveau_actuel>>

\* "<br>".join of the paragraphs of a cell
TexteCellule(cell) == Join(<<"<br>">>, [n \in 1..Len(cell) |-> ContenuDe(cell[n])])

\* "| " + " | ".join(cellules) + " |"
LigneMarkdown(cellules) == <<"|", " ">> \o Join(<<" ", "|", " ">>, cellules) \o <<" ", "|">>

\* lignes_tableau
LignesTableau(table) ==
    [r \in 1..table.rows |->
        [c \in 1..table.cols |-> TexteCellule(table.cells[(r - 1) * table.cols + c])]]

\* a table: its rows as Markdown lines, then an empty line
BlocsTableau ==
    /\ DansBoucleBlocs
    /\ Element.type = "table"
    /\ LET lignes_tableau == LignesTableau(Element)
       IN  contenu_actuel' =
               IF lignes_tableau = <<>> THEN contenu_actuel
               ELSE contenu_actuel
                      \o <<LigneMarkdown(lignes_tableau[1]),
                           LigneMarkdown([c \in 1..Len(lignes_tableau[1]) |-> <<"-", "-", "-">>])>>
                      \o [n \in 1..(Len(lignes_tableau) - 1) |-> LigneMarkdown(lignes_tableau[n + 1])]
                      \o << <<>> >>
    /\ detecteurs' = Append(detecteurs, [detecteur |-> "aucun", niveau |-> None])
    /\ position' = position + 1
    /\ UNCHANGED <<pc, varsChunk, varsImport, horsBlocs, document, niveau_actuel>>

\* after the loop: finaliser_bloc(); return blocs, then the call
\* _regrouper_blocs_en_chunks(blocs, MOTS_PAR_PAGE * TAILLE_CIBLE_PAGES) starts
BlocsRetour ==
    /\ pc = "docx_blocs"
    /\ position = Len(document)
    /\ blocs' = FinaliserBloc
    /\ contenu_actuel' = <<>>
    /\ niveau_actuel' = IF contenu_actuel # <<>> THEN 0 ELSE niveau_actuel
    /\ mots_par_chunk' = MOTS_PAR_PAGE * TAILLE_CIBLE_PAGES
    /\ pc' = "regrouper"
    /\ UNCHANGED <<idx, chunks_finaux, chunk_actuel_contenu, chunk_actuel_mots,
                   nb_blocs_chunks, varsImport, horsBlocs, document, position,
                   detecteurs>>

NextBlocs ==
    \/ BlocsStrategie
    \/ BlocsParagrapheVide
    \/ BlocsTitre
    \/ BlocsTexte
    \/ BlocsTableau
    \/ BlocsRetour
    \/ RetourVide
    \/ EntrerBoucle
    \/ BlocAccumule
    \/ FlushFinal
    \/ DocxRetour
    \/ DocxLeve
    \/ DocxExcept

SpecBlocs == InitBlocs /\ [][NextBlocs]_vars

----------------------------------------------------------------------------
(* Claims on the heading strategy of analyser_docx *)

\* a body paragraph has a style name that contains "heading" or "titre"
UnStyleDeTitre ==
    \E n \in 1..Len(document) :
        /\ document[n].type = "paragraph"
        /\ \/ Contient(Lower(document[n].style), <<"h", "e", "a", "d", "i", "n", "g">>)
           \/ Contient(Lower(document[n].style), <<"t", "i", "t", "r", "e">>)

StrategieAttendue == IF UnStyleDeTitre THEN "STYLE" ELSE "HEURISTIQUE"

\* the strategy decided is the expected one and every paragraph walked so far
\* was classified by the detector of that strategy alone
UneSeuleStrategie ==
    strategie # None =>
        /\ strategie[1] = StrategieAttendue
        /\ \A n \in 1..Len(detecteurs) :
               /\ StrategieAttendue = "STYLE" =>
                      /\ detecteurs[n].detecteur # "heuristique"
                      /\ detecteurs[n].detecteur = "style" =>
                             detecteurs[n].niveau
                                 = NiveauParStyle(StyleNormalized(document[n].style))
               /\ StrategieAttendue = "HEURISTIQUE" =>
                      /\ detecteurs[n].detecteur # "style"
                      /\ detecteurs[n].detecteur = "heuristique" =>
                             detecteurs[n].niveau
                                 = EstUnTitreProbable(ParagraphDe(document[n]))

\* C17 as stated: analyser_docx decides the strategy once per document, "STYLE"
\* if a body paragraph has a style name that contains "heading" or "titre" and
\* "HEURISTIQUE" otherwise, applies it to every paragraph (under STYLE the
\* heuristic is never consulted, under HEURISTIQUE only the heuristic makes a
\* heading), and the strategy it returns is the one it applied.
C17_ReturnsAppliedStrategy ==
    /\ UneSeuleStrategie
    /\ (pc = "retour" /\ strategie # None) => resultat[1][2] = strategie[1]

\* C17 amended: the same decision and application; when analyser_docx returns
\* from its try block the strategy it returns is the one it applied, and when an
\* except clause returns, the result is no chunk and "HEURISTIQUE" whatever was
\* decided.
C17_OneStrategyPerDocument ==
    /\ UneSeuleStrategie
    /\ (pc = "retour" /\ exception = "aucune") => resultat[1][2] = StrategieAttendue
    /\ (pc = "retour" /\ exception # "aucune") => resultat[1] = << <<>>, "HEURISTIQUE" >>

\* a document of two paragraphs was walked under STYLE, one paragraph became a
\* heading and one did not, and analyser_docx has returned from its try block
C17_Witness ==
    /\ pc = "retour"
    /\ exception = "aucune"
    /\ resultat[1][2] = "STYLE"
    /\ Len(detecteurs) = 2
    /\ \E n \in 1..2 : detecteurs[n].detecteur = "style" /\ detecteurs[n].niveau # None
    /\ \E n \in 1..2 : detecteurs[n].detecteur = "style" /\ detecteurs[n].niveau = None

\* the level N of a style name "Heading N" or "Titre N", if it is one
NiveauNomme(style) ==
    LET niveaux == { n \in 1..6 : Lower(style) \in {Lower(Heading(n)), Lower(Titre(n))} }
    IN  IF niveaux = {} THEN None ELSE Some(CHOOSE n \in niveaux : TRUE)

\* C18: under the STYLE strategy a paragraph with text whose style is named
\* heading N or titre N starts a new bloc whose first line is N '#' characters,
\* a space and the text, and whose niveau_titre is N, for every N from 1 to 6.
C18_NamedHeadingLevels1To6 ==
    (pc = "docx_blocs" /\ position >= 1 /\ strategie = Some("STYLE")) =>
        LET element == document[position]
            texte == Strip(ContenuDe(element.runs))
        IN  (element.type = "paragraph" /\ texte # <<>>
                /\ NiveauNomme(element.style) # None) =>
                LET N == NiveauNomme(element.style)[1]
                IN  /\ contenu_actuel = <<[n \in 1..N |-> "#"] \o <<" ">> \o texte>>
                    /\ niveau_actuel = N


----------------------------------------------------------------------------
(* ia_provider/exporter.py: the structural export (generer_export_docx,      *)
(* _reconstruire_blocs, _appliquer_style_run). A value read from JSON is a   *)
(* record of its Python type and its content; a dict of known keys is a      *)
(* record whose absent keys are None.                                        *)

MaxCorps == 2      \* most blocs in the body of a structural Document

PyVal(type, valeur) == [type |-> type, valeur |-> valeur]

\* a run_data dict {"text": ..., "style": ...}
RunData(str, style) == [text |-> str, style |-> style]

\* a style dict of a run_data with every key but, possibly, the colour
StyleRun(couleur) ==
    [font_name |-> Some("Arial"), font_size |-> Some(12), font_color_rgb |-> couleur,
     is_bold |-> Some(TRUE), is_italic |-> Some(FALSE)]

StylesRun ==
    {None, Some(StyleVide)}
        \cup { Some(StyleRun(c)) :
                 c \in {None} \cup { Some(k) : k \in CouleursValides \cup CouleursMalFormees } }

\* a bloc dict {"type": ..., "runs": [...], "items": [...], "rows": [...]}
BlocStructure(type, runs, items, rows) ==
    [type |-> type, runs |-> runs, items |-> items, rows |-> rows]

ParagrapheStructure(runs) == BlocStructure("paragraph", runs, <<>>, <<>>)

\* a cell_structure: a list of one paragraph bloc of one run
CelluleStructure(c) == <<ParagrapheStructure(<<RunData(<<c>>, None)>>)>>

\* the table of the exported documents: one row of two cells, each cell_structure
\* a list of one paragraph bloc
TableStructure ==
    BlocStructure("table", <<>>, <<>>,
        << << <<ParagrapheStructure(<<RunData(<<"a">>, Some(StyleRun(None)))>>)>>,
              <<ParagrapheStructure(<<RunData(<<"b">>, None)>>)>> >> >>)

\* the bloc dict has no "type" key
TypeAbsent == "(absent)"

\* the list of the exported documents: two items, and runs of its own
ListeStructure ==
    BlocStructure("list", <<RunData(<<"T">>, None)>>, << <<"a">>, <<"b">> >>, <<>>)

BlocsStructure ==
    { ParagrapheStructure(<<RunData(<<"T">>, s)>>) : s \in StylesRun }
        \cup { BlocStructure(t, <<RunData(<<"T">>, None), RunData(<<"U">>, None)>>,
                              <<>>, <<>>) :
                 t \in {"heading_1", "heading_2", "heading_3", "quote", TypeAbsent} }
        \cup { ListeStructure, TableStructure }

\* tables whose rows differ in length: a last row longer than the first, a
\* middle row longer than the first, a row shorter than the first
TablesIrregulieres ==
    { BlocStructure("table", <<>>, <<>>, rows) :
        rows \in { << <<CelluleStructure("a")>>,
                      <<CelluleStructure("b"), CelluleStructure("c")>> >>,
                   << <<CelluleStructure("a")>>,
                      <<CelluleStructure("b"), CelluleStructure("c")>>,
                      <<CelluleStructure("d")>> >>,
                   << <<CelluleStructure("a"), CelluleStructure("b")>>,
                      <<CelluleStructure("c")>> >> } }

CorpsStructure ==
    UNION { [1..n -> BlocsStructure] : n \in 0..MaxCorps }
        \cup { <<t>> : t \in TablesIrregulieres }

\* a Document dict {"header": [...], "footer": [...], "body": [...]}
DocumentStructure(header, footer, body) ==
    PyVal("dict", [header |-> header, footer |-> footer, body |-> body])

EnTetesStructure ==
    {None, Some(<<ParagrapheStructure(<<RunData(<<"T">>, None)>>)>>),
     Some(<<BlocStructure("heading_1", <<RunData(<<"T">>, None)>>, <<>>, <<>>)>>)}

\* the header and the footer of the exported documents: both missing, a header
\* alone, an empty header with a footer
EnTetesEtPieds ==
    { <<h, None>> : h \in EnTetesStructure }
        \cup { <<Some(<<>>), Some(<<ParagrapheStructure(<<RunData(<<"P">>, None)>>)>>)>> }

\* the body of the exported documents: missing, or a list of blocs
CorpsOuRien == {None} \cup { Some(PyVal("list", b)) : b \in CorpsStructure }

Documents ==
    { DocumentStructure(hf[1], hf[2], b) : hf \in EnTetesEtPieds, b \in CorpsOuRien }

\* style.get("is_bold") as the value of run.bold
DrapeauOuNone(valeur) ==
    IF valeur = None THEN "None" ELSE IF valeur[1] THEN "True" ELSE "False"

\* the colour part of _appliquer_style_run: RGBColor.from_string in a try block
\* with except ValueError: pass
CouleurRun(essai) ==
    [leve |-> IF essai.leve = "ValueError" THEN "aucune" ELSE essai.leve, rgb |-> essai.rgb]

\* the run _appliquer_style_run leaves for a style that is not empty, c being
\* what became of the colour
RunStyle(str, s, c) ==
    [leve |-> c.leve,
     run |-> Run(str, s.font_name, s.font_size, c.rgb,
                 DrapeauOuNone(s.is_bold), DrapeauOuNone(s.is_italic))]

\* _appliquer_style_run(run, style) on a new run of text str: the run it leaves
\* and the exception it raises
AppliquerStyleRun(str, style) ==
    IF style = None \/ style[1] = StyleVide
    THEN [leve |-> "aucune", run |-> Run(str, None, None, None, "None", "None")]
    ELSE RunStyle(str, style[1],
                  IF style[1].font_color_rgb = None THEN [leve |-> "aucune", rgb |-> None]
                  ELSE CouleurRun(FromString(style[1].font_color_rgb[1])))

\* the paragraph holds one more run
AvecRun(etat, r) == [leve |-> r.leve, runs |-> Append(etat.runs, r.run)]

\* run = p.add_run(run_data.get("text", "")); _appliquer_style_run(run, ...)
AjouterRun(etat, run_data) ==
    IF ~XMLCompatible(run_data.text) THEN [etat EXCEPT !.leve = "ValueError"]
    ELSE AvecRun(etat, AppliquerStyleRun(run_data.text, run_data.style))

RECURSIVE AjouterRuns(_, _)
\* for run_data in bloc.get("runs", []), up to the first turn that raises;
\* etat is the exception raised and the runs of the paragraph
AjouterRuns(etat, runs_data) ==
    IF runs_data = <<>> \/ etat.leve # "aucune" THEN etat
    ELSE AjouterRuns(AjouterRun(etat, Head(runs_data)), Tail(runs_data))

\* a new paragraph: p = parent.add_paragraph() or parent.add_heading(level=niveau)
SansRun == [leve |-> "aucune", runs |-> <<>>]

\* the cell holds one more paragraph
AvecParagraphe(etat, r) ==
    [leve |-> r.leve, paragraphes |-> Append(etat.paragraphes, r.runs)]

RECURSIVE ReconstruireCellule(_, _)
\* _reconstruire_blocs(table.cell(i, j), cell_structure) for paragraph blocs: each
\* adds a paragraph after those the cell holds
ReconstruireCellule(etat, cell_structure) ==
    IF cell_structure = <<>> \/ etat.leve # "aucune" THEN etat
    ELSE ReconstruireCellule(
             AvecParagraphe(etat, AjouterRuns(SansRun, Head(cell_structure).runs)),
             Tail(cell_structure))

\* the turns of the two nested enumerate loops: <<i, j, cell_structure>>
Positions(table_data) ==
    Concat([i \in 1..Len(table_data) |->
               [j \in 1..Len(table_data[i]) |-> <<i - 1, j - 1, table_data[i][j]>>]])

\* the cell k of the table holds what the call on it left
AvecCellule(etat, k, c) ==
    [leve |-> c.leve, table |-> [etat.table EXCEPT !.cells[k + 1] = c.paragraphes]]

\* table.cell(i, j) is the cell k = j + i * cols of the table: IndexError past
\* the last cell
RemplirCellule(etat, k, cell_structure) ==
    IF k >= etat.table.rows * etat.table.cols THEN [etat EXCEPT !.leve = "IndexError"]
    ELSE AvecCellule(etat, k,
             ReconstruireCellule([leve |-> "aucune", paragraphes |-> etat.table.cells[k + 1]],
                                 cell_structure))

RECURSIVE RemplirCellules(_, _)
\* the nested loops over a new table, up to the first call that raises
RemplirCellules(etat, positions) ==
    IF positions = <<>> \/ etat.leve # "aucune" THEN etat
    ELSE RemplirCellules(
             RemplirCellule(etat, Head(positions)[2] + (Head(positions)[1] * etat.table.cols),
                            Head(positions)[3]),
             Tail(positions))

\* table = parent.add_table(rows=len(table_data), cols=len(table_data[0]))
NouvelleTable(table_data) ==
    [leve |-> "aucune",
     table |-> Item("table", NormalTable, <<>>, Len(table_data), Len(table_data[1]),
                    [k \in 1..(Len(table_data) * Len(table_data[1])) |-> << <<>> >>])]

\* bloc.get("type", "paragraph")
TypeBloc(bloc) == IF bloc.type = TypeAbsent THEN "paragraph" ELSE bloc.type

\* the characters of a type name
Lettres(type_bloc) ==
    CASE type_bloc = "paragraph" -> <<"p", "a", "r", "a", "g", "r", "a", "p", "h">>
      [] type_bloc = "heading_1" -> <<"h", "e", "a", "d", "i", "n", "g", "_", "1">>
      [] type_bloc = "heading_2" -> <<"h", "e", "a", "d", "i", "n", "g", "_", "2">>
      [] type_bloc = "heading_3" -> <<"h", "e", "a", "d", "i", "n", "g", "_", "3">>
      [] type_bloc = "list" -> <<"l", "i", "s", "t">>
      [] type_bloc = "table" -> <<"t", "a", "b", "l", "e">>
      [] type_bloc = "quote" -> <<"q", "u", "o", "t", "e">>

\* str.startswith(prefixe)
StartsWithStr(str, prefixe) ==
    Len(str) >= Len(prefixe) /\ SubSeq(str, 1, Len(prefixe)) = prefixe

\* str.split("_")[-1]: what follows the last "_", the whole str without one
DernierMorceau(str) ==
    LET positions == {0} \cup { n \in 1..Len(str) : str[n] = "_" }
    IN  SubSeq(str, 1 + (CHOOSE n \in positions : \A m \in positions : m <= n), Len(str))

RECURSIVE IntStr(_)
\* int(str) for a str of decimal digits
IntStr(str) ==
    IF str = <<>> THEN 0
    ELSE 10 * IntStr(SubSeq(str, 1, Len(str) - 1))
             + RangDe(str[Len(str)], <<"0", "1", "2", "3", "4", "5", "6", "7", "8", "9">>) - 1

\* type_bloc.startswith("heading")
EstHeading(type_bloc) ==
    StartsWithStr(Lettres(type_bloc), <<"h", "e", "a", "d", "i", "n", "g">>)

\* int(type_bloc.split("_")[-1])
NiveauType(type_bloc) == IntStr(DernierMorceau(Lettres(type_bloc)))

\* the container holds one more paragraph, of style name style
AvecParagrapheDocx(etat, style, r) ==
    [etat EXCEPT !.leve = r.leve, !.items = Append(@, ParagrapheDocx(style, r.runs))]

\* the container holds one more table
AvecTable(etat, t) == [etat EXCEPT !.leve = t.leve, !.items = Append(@, t.table)]

\* p = parent.add_heading(level=niveau): a method of Document alone, which no
\* header, footer or cell has
AjouterHeading(etat, niveau, runs) ==
    IF etat.parent # "Document" THEN [etat EXCEPT !.leve = "AttributeError"]
    ELSE AvecParagrapheDocx(etat, Heading(niveau), AjouterRuns(SansRun, runs))

\* parent.add_table(rows=..., cols=...): the add_table of a header or footer
\* has a third required parameter, width
AjouterTable(etat, table_data) ==
    IF etat.parent \in {"_Header", "_Footer"} THEN [etat EXCEPT !.leve = "TypeError"]
    ELSE AvecTable(etat, RemplirCellules(NouvelleTable(table_data), Positions(table_data)))

\* one turn of the for loop of _reconstruire_blocs; etat is the exception raised
\* and the block items the container holds
ReconstruireBloc(etat, bloc) ==
    CASE EstHeading(TypeBloc(bloc)) ->
           AjouterHeading(etat, NiveauType(TypeBloc(bloc)), bloc.runs)
      [] TypeBloc(bloc) = "list" ->
           [etat EXCEPT !.items = @ \o [n \in 1..Len(bloc.items) |->
                             ParagrapheDocx(ListBullet,
                                 <<Run(bloc.items[n], None, None, None, "None", "None")>>)]]
      [] TypeBloc(bloc) = "table" ->
           IF bloc.rows = <<>> THEN etat ELSE AjouterTable(etat, bloc.rows)
      [] OTHER ->
           AvecParagrapheDocx(etat, Normal, AjouterRuns(SansRun, bloc.runs))

RECURSIVE ReconstruireBlocs(_, _)
\* _reconstruire_blocs(parent, blocs_structure), up to the first turn that raises
ReconstruireBlocs(etat, blocs_structure) ==
    IF blocs_structure = <<>> \/ etat.leve # "aucune" THEN etat
    ELSE ReconstruireBlocs(ReconstruireBloc(etat, Head(blocs_structure)),
                           Tail(blocs_structure))

\* a container of class parent that holds the block items items
Conteneur(parent, items) == [leve |-> "aucune", parent |-> parent, items |-> items]

\* the paragraph a new header or footer part holds
ParagrapheEnTete(style) == <<ParagrapheDocx(style, <<>>)>>

\* p_tdm: the paragraph of the table of contents, one run without text
ParagrapheTdm == ParagrapheDocx(Normal, <<RunVide>>)

\* a DOCX document: its header, its footer and its body
Docx(header, footer, body) == [header |-> header, footer |-> footer, body |-> body]

\* document.save(output) on a new io.BytesIO: the stream holds the file and
\* stands after its last byte (a written file is never empty)
Save(docx) ==
    [header |-> docx.header, footer |-> docx.footer, body |-> docx.body,
     position |-> 1 + Len(docx.body)]

\* output.seek(offset)
Seek(output, offset) == [output EXCEPT !.position = offset]

\* the part is populated whenever the key is there, even with an empty list
EnTeteOuPied_MemeVide(parent, valeur, style) ==
    IF valeur = None THEN Conteneur(parent, <<>>)
    ELSE ReconstruireBlocs(Conteneur(parent, ParagrapheEnTete(style)), valeur[1])

\* if document_structure.get(key): _reconstruire_blocs(section part, ...)
EnTeteOuPied(parent, valeur, style) ==
    IF valeur = None \/ valeur = Some(<<>>) THEN Conteneur(parent, <<>>)
    ELSE ReconstruireBlocs(Conteneur(parent, ParagrapheEnTete(style)), valeur[1])

\* the header, then the footer: the footer is not built when the header raised
EnTetes(h, f) ==
    IF h.leve # "aucune" THEN [leve |-> h.leve, header |-> h.items, footer |-> <<>>]
    ELSE [leve |-> f.leve, header |-> h.items, footer |-> f.items]

\* _reconstruire_blocs(document, document_structure.get("body", [])) on the
\* document that holds items
Corps(items, valeur) ==
    IF valeur = None THEN Conteneur("Document", items)
    ELSE IF valeur[1].type # "list"
         THEN [leve |-> "TypeError", parent |-> "Document", items |-> items]
         ELSE ReconstruireBlocs(Conteneur("Document", items), valeur[1].valeur)


----------------------------------------------------------------------------
(* app.py: the export of an LLM response, after the synchronous call and for *)
(* a completed batch. A response is a text; the model keeps its two readings: *)
(* what json.loads makes of it and the Markdown source it is.                *)

\* a response text: json is the value json.loads returns (None when it raises
\* JSONDecodeError), markdown the text as Markdown blocks
Reponse(json, markdown) == [json |-> json, markdown |-> markdown]

\* a text that is one JSON value reads as one Markdown paragraph
TexteJson == <<Bloc("paragraphe", <<Inline("texte", <<"x">>)>>, <<>>)>>

\* Markdown answers: of at most one block, or the raw table with a short row
\* followed by a paragraph XML does not allow
ReponsesMarkdown ==
    { t \in TextesMarkdown : Len(t) <= 1 }
        \cup { << Bloc("html_table", <<>>,
                       << [c \in 1..1 |-> CelluleDe(c)], [c \in 1..2 |-> CelluleDe(c)] >>),
                  Bloc("paragraphe", <<Inline("texte", <<CTRL>>)>>, <<>>) >> }

\* JSON answers that are no Document: 42, "a", [1], null, {"body": 5}
ReponsesJsonAutres ==
    { PyVal("int", 42), PyVal("str", <<"a">>), PyVal("list", <<1>>), PyVal("NoneType", <<>>),
      DocumentStructure(None, None, Some(PyVal("int", 5))) }

ReponsesLLM ==
    { Reponse(None, t) : t \in ReponsesMarkdown }
        \cup { Reponse(Some(v), TexteJson) : v \in ReponsesJsonAutres \cup Documents }

\* the styles the sidebar gives: hex_to_rgb returns a tuple
StylesApp == { s \in StylesInterface : s.font_color_rgb = Some(Couleur("tuple", <<"255", "0", "0">>)) }

InitExport ==
    /\ pc = "export"
    /\ SectionInactif
    /\ LotInactif
    /\ ProviderInactif
    /\ DecoupeInactif
    /\ ChunkInactif
    /\ TitreInactif
    /\ ImportInactif
    /\ BlocsInactif
    /\ user_instruction = <<>>
    /\ prompt = <<>>
    /\ envoi = None
    /\ document_structure_pour_export = None
    /\ chemin \in {"sync", "batch"}
    /\ response \in { Some(r) : r \in ReponsesLLM }
    /\ reponse_structuree = None
    /\ buffer = None
    /\ non_attrapee = "aucune"
    /\ texte_markdown = <<>>
    /\ styles \in StylesApp
    /\ doc = <<>>
    /\ restants = <<>>
    /\ erreur = None

\* the response goes through json.loads first: always for a batch, for the
\* synchronous call if isinstance(document_structure_pour_export, dict)
JsonDAbord == chemin = "batch" \/ document_structure_pour_export # None

\* reponse_structuree = json.loads(response)
ExportJsonLoads ==
    /\ pc = "export"
    /\ JsonDAbord
    /\ IF response[1].json = None
       THEN /\ exception' = "JSONDecodeError"
            /\ pc' = "export_leve"
            /\ UNCHANGED reponse_structuree
       ELSE /\ reponse_structuree' = response[1].json
            /\ pc' = "generer_export_docx"
            /\ UNCHANGED exception
    /\ UNCHANGED <<fichier, appelant, strategie, resultat, varsMarkdown, horsApp,
                   user_instruction, prompt, envoi, document_structure_pour_export,
                   chemin, response, buffer, non_attrapee>>

\* generer_export_docx, step 1: document = Document(), then the header and the
\* footer, each when document_structure.get finds a list that is not empty
ExportEnTetes ==
    /\ pc = "generer_export_docx"
    /\ doc' = <<>>
    /\ IF reponse_structuree[1].type # "dict"
       THEN /\ exception' = "AttributeError"
            /\ pc' = "export_leve"
            /\ UNCHANGED section
       ELSE LET e == EnTetes(EnTeteOuPied("_Header", reponse_structuree[1].valeur.header,
                                          <<"H", "e", "a", "d", "e", "r">>),
                             EnTeteOuPied("_Footer", reponse_structuree[1].valeur.footer,
                                          <<"F", "o", "o", "t", "e", "r">>))
            IN  /\ section' = [header |-> e.header, footer |-> e.footer]
                /\ IF e.leve = "aucune"
                   THEN pc' = "export_tdm" /\ UNCHANGED exception
                   ELSE pc' = "export_leve" /\ exception' = e.leve
    /\ UNCHANGED <<fichier, appelant, strategie, resultat, texte_markdown, styles, restants,
                   erreur, varsChunk, varsTitre, varsBlocs, varsDecoupe, varsLot,
                   varsProvider, user_instruction, prompt, envoi,
                   document_structure_pour_export, chemin, response, reponse_structuree,
                   non_attrapee,
                   buffer>>

\* step 2: p_tdm = document.add_paragraph() and its run that holds the TOC field
ExportTdm ==
    /\ pc = "export_tdm"
    /\ doc' = Append(doc, ParagrapheTdm)
    /\ pc' = "export_corps"
    /\ UNCHANGED <<fichier, appelant, strategie, resultat, texte_markdown, styles, restants,
                   erreur, varsChunk, varsTitre, varsBlocs, varsDecoupe, varsLot,
                   varsProvider, user_instruction, prompt, envoi,
                   document_structure_pour_export, chemin, response, reponse_structuree,
                   non_attrapee,
                   exception, section, buffer>>

\* step 3: _reconstruire_blocs(document, document_structure.get("body", []))
ExportCorps ==
    /\ pc = "export_corps"
    /\ LET c == Corps(doc, reponse_structuree[1].valeur.body)
       IN  /\ doc' = c.items
           /\ IF c.leve = "aucune"
              THEN pc' = "export_save" /\ UNCHANGED exception
              ELSE pc' = "export_leve" /\ exception' = c.leve
    /\ UNCHANGED <<fichier, appelant, strategie, resultat, texte_markdown, styles, restants,
                   erreur, varsChunk, varsTitre, varsBlocs, varsDecoupe, varsLot,
                   varsProvider, user_instruction, prompt, envoi,
                   document_structure_pour_export, chemin, response, reponse_structuree,
                   non_attrapee,
                   section, buffer>>

\* step 4: document.save(output); output.seek(0); return output
ExportSave ==
    /\ pc = "export_save"
    /\ buffer' = Some(Seek(Save(Docx(section.header, section.footer, doc)), 0))
    /\ pc' = "export_retour"
    /\ UNCHANGED <<fichier, appelant, strategie, resultat, texte_markdown, styles, restants,
                   erreur, varsChunk, varsTitre, varsBlocs, varsDecoupe, varsLot,
                   varsProvider, user_instruction, prompt, envoi,
                   document_structure_pour_export, chemin, response, reponse_structuree,
                   non_attrapee,
                   exception, section, doc>>

\* generer_export_docx(document_structure, styles_interface)
ExportStructure == ExportEnTetes \/ ExportTdm \/ ExportCorps \/ ExportSave

\* the except clause of the export: json.JSONDecodeError after the synchronous
\* call, (json.JSONDecodeError, TypeError) for a batch
ExportAttrape ==
    \/ chemin = "sync" /\ exception = "JSONDecodeError"
    \/ chemin = "batch" /\ exception \in {"JSONDecodeError", "TypeError"}

\* generer_export_docx_markdown(response, styles_interface) starts: a new
\* document and converter.add_markdown(texte_markdown)
VersMarkdown ==
    /\ texte_markdown' = response[1].markdown
    /\ doc' = <<>>
    /\ pc' = "add_markdown"
    /\ UNCHANGED <<styles, restants, erreur>>

\* the exception is caught: the export falls back on the Markdown renderer
ExportExcept ==
    /\ pc = "export_leve"
    /\ chemin # "aucun"
    /\ ExportAttrape
    /\ VersMarkdown
    /\ UNCHANGED <<varsImport, horsApp, varsApp>>

\* the exception is not caught: it leaves the export step
ExportEchec ==
    /\ pc = "export_leve"
    /\ chemin # "aucun"
    /\ ~ExportAttrape
    /\ non_attrapee' = exception
    /\ pc' = "export_echec"
    /\ UNCHANGED <<varsImport, varsMarkdown, horsApp, user_instruction, prompt, envoi,
                   document_structure_pour_export, chemin, response, reponse_structuree,
                   buffer>>

\* the else branch after the synchronous call: st.write(response) and the
\* Markdown renderer
ExportTexte ==
    /\ pc = "export"
    /\ ~JsonDAbord
    /\ VersMarkdown
    /\ UNCHANGED <<varsImport, horsApp, varsApp>>

\* add_markdown returned: document.save(output); return output
ExportMarkdownRetour ==
    /\ pc = "md_retour"
    /\ chemin # "aucun"
    /\ buffer' = Some(Seek(Save(Docx(<<>>, <<>>, doc)), 0))
    /\ pc' = "export_retour"
    /\ UNCHANGED <<varsImport, varsMarkdown, horsApp, user_instruction, prompt, envoi,
                   document_structure_pour_export, chemin, response, reponse_structuree,
                   non_attrapee>>

\* add_markdown raised: the exception leaves the export step (after the
\* synchronous call the handler of the whole generation reports it)
ExportMarkdownLeve ==
    /\ pc = "md_leve"
    /\ chemin # "aucun"
    /\ non_attrapee' = "ValueError"
    /\ pc' = "export_echec"
    /\ UNCHANGED <<varsImport, varsMarkdown, horsApp, user_instruction, prompt, envoi,
                   document_structure_pour_export, chemin, response, reponse_structuree,
                   buffer>>

NextExport ==
    \/ ExportJsonLoads
    \/ ExportStructure
    \/ ExportExcept
    \/ ExportEchec
    \/ ExportTexte
    \/ ExportMarkdownRetour
    \/ ExportMarkdownLeve
    \/ NextMarkdown

SpecExport == InitExport /\ [][NextExport]_vars


----------------------------------------------------------------------------
(* exporter.py called directly: add_markdown on a converter, or              *)
(* generer_export_docx on a Document.                                        *)

InitStructure ==
    /\ pc = "generer_export_docx"
    /\ SectionInactif
    /\ LotInactif
    /\ ProviderInactif
    /\ DecoupeInactif
    /\ ChunkInactif
    /\ TitreInactif
    /\ ImportInactif
    /\ BlocsInactif
    /\ MarkdownInactif
    /\ user_instruction = <<>>
    /\ prompt = <<>>
    /\ envoi = None
    /\ document_structure_pour_export = None
    /\ chemin = "aucun"
    /\ response = None
    /\ reponse_structuree \in { Some(d) : d \in Documents }
    /\ buffer = None
    /\ non_attrapee = "aucune"

InitDocx == InitMarkdown \/ InitStructure

NextDocx == NextMarkdown \/ ExportStructure

SpecDocx == InitDocx /\ [][NextDocx]_vars

----------------------------------------------------------------------------
(* Claims on the export *)

RunsDeParagraphe(runs) == { runs[k] : k \in 1..Len(runs) }

RunsDeCellule(cell) == UNION { RunsDeParagraphe(cell[p]) : p \in 1..Len(cell) }

RunsDeItem(item) ==
    RunsDeParagraphe(item.runs)
        \cup UNION { RunsDeCellule(item.cells[c]) : c \in 1..Len(item.cells) }

\* the runs of block items: those of the paragraphs and of the cells of the tables
TousLesRuns(items) == UNION { RunsDeItem(items[n]) : n \in 1..Len(items) }

\* the colour of a style is a bad hex string, a string with a leading "#" or a
\* value of the wrong type
CouleurMalFormee(style) ==
    style.font_color_rgb # None /\ style.font_color_rgb[1] \in CouleursMalFormees

\* the body of the Document handed to generer_export_docx:
\* document_structure.get("body", [])
CorpsExporte ==
    IF reponse_structuree[1].valeur.body = None THEN <<>>
    ELSE reponse_structuree[1].valeur.body[1].valeur

\* the run a run_data of malformed colour must leave: no colour, the rest applied
RunSansCouleur(run_data) ==
    Run(run_data.text, run_data.style[1].font_name, run_data.style[1].font_size, None,
        DrapeauOuNone(run_data.style[1].is_bold), DrapeauOuNone(run_data.style[1].is_italic))

\* the Document is a body of paragraphs of one run, the last of malformed colour
DernierRunMalForme ==
    /\ reponse_structuree # None
    /\ reponse_structuree[1] \in Documents
    /\ CorpsExporte # <<>>
    /\ \A n \in 1..Len(CorpsExporte) : CorpsExporte[n].type = "paragraph"
    /\ LET style == CorpsExporte[Len(CorpsExporte)].runs[1].style
       IN  style \notin {None, Some(StyleVide)} /\ CouleurMalFormee(style[1])

\* C12: a malformed colour in a run's style never aborts styling or export. When
\* generer_export_docx has run on a Document whose last paragraph has a run of
\* malformed colour, it has returned and that run has no colour and the bold,
\* italic, font name and font size of its style; when add_markdown walks a text
\* under a style of malformed colour, each run it has styled has no colour, the
\* font name and size of the style, and bold and italic set.
C12_MalformedColourIgnored ==
    /\ (pc \in {"export_retour", "export_leve"} /\ DernierRunMalForme)
           => /\ pc = "export_retour"
              /\ Len(doc) = Len(CorpsExporte) + 1
              /\ doc[Len(doc)].runs
                     = <<RunSansCouleur(CorpsExporte[Len(CorpsExporte)].runs[1])>>
    /\ (pc \in {"md_walk", "md_retour"} /\ erreur = None /\ CouleurMalFormee(styles))
           => \A r \in TousLesRuns(doc) :
                  /\ r.rgb = None
                  /\ r.font_name = styles.font_name
                  /\ r.font_size = styles.font_size
                  /\ r.bold # "None"
                  /\ r.italic # "None"

\* the part of C12 about _apply_style alone
C12_ApplyStyleSeul ==
    (pc \in {"md_walk", "md_retour"} /\ erreur = None /\ CouleurMalFormee(styles))
        => \A r \in TousLesRuns(doc) :
               /\ r.rgb = None /\ r.font_name = styles.font_name
               /\ r.font_size = styles.font_size /\ r.bold # "None" /\ r.italic # "None"


\* the response is not valid JSON or is JSON that is no Document
PasUnDocument == response[1].json = None \/ response[1].json[1] \notin Documents

\* C15: when a response that is not valid JSON, or is JSON that is no Document, is
\* exported, after the synchronous call or for a completed batch, the export
\* step never ends in an error: it ends with a DOCX buffer, the one the Markdown
\* renderer built from the raw text of the response.
C15_SchemaMismatchFallsBackToMarkdown ==
    (chemin \in {"sync", "batch"} /\ PasUnDocument)
        => /\ pc # "export_echec"
           /\ non_attrapee = "aucune"
           /\ pc = "export_retour"
                 => /\ texte_markdown = response[1].markdown
                    /\ buffer = Some(Seek(Save(Docx(<<>>, <<>>, doc)), 0))


----------------------------------------------------------------------------
(* The round trip: generer_export_docx on a Document, then analyser_docx on   *)
(* the file it wrote.                                                        *)

\* analyser_docx(fichier) on the exported file: document = docx.Document(fichier)
Reimporter ==
    /\ pc = "export_retour"
    /\ chemin = "aucun"
    /\ document' = buffer[1].body
    /\ appelant' = "analyser_docx"
    /\ pc' = "docx_strategie"
    /\ UNCHANGED <<varsChunk, horsBlocs, fichier, strategie, exception, resultat, position,
                   contenu_actuel, niveau_actuel, detecteurs>>

\* The body of an exported file starts with the paragraph of the table of
\* contents, so the list of blocs handed to _regrouper_blocs_en_chunks is never
\* empty and its first return is left out.
NextRoundTrip ==
    \/ ExportStructure
    \/ Reimporter
    \/ BlocsStrategie
    \/ BlocsParagrapheVide
    \/ BlocsTitre
    \/ BlocsTexte
    \/ BlocsTableau
    \/ BlocsRetour
    \/ EntrerBoucle
    \/ BlocAccumule
    \/ FlushFinal
    \/ DocxRetour
    \/ DocxLeve
    \/ DocxExcept

SpecRoundTrip == InitStructure /\ [][NextRoundTrip]_vars

\* the Document is one paragraph of one run whose style names a font, a size,
\* bold, italic and a colour of six hexadecimal digits, with or without "#"
UnParagrapheUnRun ==
    /\ chemin = "aucun"
    /\ reponse_structuree # None
    /\ Len(CorpsExporte) = 1
    /\ CorpsExporte[1].type = "paragraph"
    /\ LET style == CorpsExporte[1].runs[1].style
       IN  /\ style \notin {None, Some(StyleVide)}
           /\ style[1].font_color_rgb # None
           /\ style[1].font_color_rgb[1].type = "str"
           /\ LET valeur == style[1].font_color_rgb[1].valeur
              IN  FromString(Couleur("str", IF Head(valeur) = "#" THEN Tail(valeur)
                                            ELSE valeur)).leve = "aucune"

\* the run of the DOCX file that has every field of the run_data
RunFidele(run_data) ==
    LET valeur == run_data.style[1].font_color_rgb[1].valeur
    IN  Run(run_data.text, run_data.style[1].font_name, run_data.style[1].font_size,
            FromString(Couleur("str", IF Head(valeur) = "#" THEN Tail(valeur)
                                      ELSE valeur)).rgb,
            DrapeauOuNone(run_data.style[1].is_bold),
            DrapeauOuNone(run_data.style[1].is_italic))

\* C13: export followed by re-import is the identity on runs. For a Document of
\* one paragraph of one run (text, font name, font size, bold, italic, hex
\* colour): the paragraph of the exported file holds one run with these six
\* values, and what analyser_docx returns for the file has, as its content, the
\* text of the run.
C13_RoundTripIdentityOnRuns ==
    UnParagrapheUnRun
        => /\ buffer # None
                 => buffer[1].body[Len(buffer[1].body)].runs
                        = <<RunFidele(CorpsExporte[1].runs[1])>>
           /\ (pc = "retour" /\ exception = "aucune")
                 => resultat[1][1] = <<CorpsExporte[1].runs[1].text>>


----------------------------------------------------------------------------
(* app.py: the construction of the prompt from the instruction and the       *)
(* uploaded file, and its hand-over to the provider.                         *)

\* st.file_uploader(..., type=["docx", "pdf"]): the names an upload can have
FichiersTeleverses ==
    { f \in Fichiers : \/ EndsWithStr(NomNormalise(f.name), SuffixeDocx)
                       \/ EndsWithStr(NomNormalise(f.name), SuffixePdf) }

\* the instructions typed: generation requires user_instruction.strip()
Instructions == { <<"R">>, <<"R", " ", "5">> }

\* type(contenu_brut): every return statement of analyser_document,
\* analyser_docx and analyser_pdf builds a list of str as its first component
TypeDe(contenu_brut) == "list"

\* prompt_final when contenu_brut is a str
PromptTexte(instruction, texte_a_traiter) ==
    <<"Voici une instruction à appliquer sur le contenu d'un document.\n\n",
      "Instruction de l'utilisateur : \"">> \o instruction
        \o <<"\"\n\n", "Contenu du document à analyser :\n">> \o texte_a_traiter
        \o <<"\n\n",
             "---\nInstruction de formatage : Structure ta réponse finale en utilisant la syntaxe Markdown.">>

\* prompt_final when contenu_brut is a dict, json_str being its serialisation
PromptJson(instruction, json_str) ==
    <<"INSTRUCTION : Tu es un assistant expert en traduction. ...\n",
      "TÂCHE DE TRADUCTION : \"">> \o instruction
        \o <<"\"\n", "RÈGLE ABSOLUE : ...\n\n", "JSON À TRAITER :\n">> \o json_str

InitPrompt ==
    /\ pc = "page"
    /\ SectionInactif
    /\ LotInactif
    /\ ProviderInactif
    /\ DecoupeInactif
    /\ ChunkInactif
    /\ TitreInactif
    /\ MarkdownInactif
    /\ BlocsInactif
    /\ fichier \in FichiersTeleverses \cup {<<>>}
    /\ appelant = "aucun"
    /\ strategie = None
    /\ exception = "aucune"
    /\ resultat = None
    /\ user_instruction \in Instructions
    /\ prompt = <<>>
    /\ envoi = None
    /\ document_structure_pour_export = None
    /\ chemin \in {"sync", "batch"}
    /\ response = None
    /\ reponse_structuree = None
    /\ buffer = None
    /\ non_attrapee = "aucune"

\* what the steps of the page leave alone
horsPrompt == <<varsChunk, varsTitre, varsMarkdown, varsBlocs, varsImport, varsDecoupe,
                user_instruction,
                chemin, response, reponse_structuree, buffer, non_attrapee,
                varsSection, varsLot, varsProvider>>

\* uploaded_file is None: prompt = prompt_final = user_instruction
PromptSansFichier ==
    /\ pc = "page"
    /\ fichier = <<>>
    /\ prompt' = user_instruction
    /\ pc' = "generer"
    /\ UNCHANGED <<horsPrompt, envoi, document_structure_pour_export>>

\* contenu_brut, template_styles = importer.analyser_document(uploaded_file)
PromptAnalyser ==
    /\ pc = "page"
    /\ fichier # <<>>
    /\ pc' = "analyser_document"
    /\ UNCHANGED <<horsPrompt, prompt, envoi, document_structure_pour_export>>

\* analyser_document returned: the two isinstance tests, then prompt = prompt_final
PromptConstruire ==
    /\ pc = "retour"
    /\ chemin # "aucun"
    /\ LET contenu_brut == resultat[1][1]
       IN  /\ prompt' = CASE TypeDe(contenu_brut) = "str" ->
                               PromptTexte(user_instruction, contenu_brut)
                          [] TypeDe(contenu_brut) = "dict" ->
                               PromptJson(user_instruction, <<"json_str">>)
                          [] OTHER -> user_instruction
           /\ document_structure_pour_export' =
                  IF TypeDe(contenu_brut) = "dict" THEN Some(contenu_brut)
                  ELSE document_structure_pour_export
    /\ pc' = "generer"
    /\ UNCHANGED <<horsPrompt, envoi>>

\* provider_instance.generer_reponse(prompt, **params), or the request body
\* {"messages": [{"role": "user", "content": prompt}]} of the batch
PromptEnvoyer ==
    /\ pc = "generer"
    /\ envoi' = Some(prompt)
    /\ pc' = "envoye"
    /\ UNCHANGED <<horsPrompt, prompt, document_structure_pour_export>>

\* An upload has a name in .docx or .pdf, so the last return of
\* analyser_document is left out.
NextPrompt ==
    \/ PromptSansFichier
    \/ PromptAnalyser
    \/ PromptConstruire
    \/ PromptEnvoyer
    \/ DispatchDocx
    \/ DispatchPdf
    \/ DocxSeek
    \/ DocxOuvrir
    \/ DocxStrategie
    \/ DocxBlocs
    \/ NextChunk
    \/ DocxRetour
    \/ DocxLeve
    \/ DocxExcept
    \/ PdfSeek
    \/ PdfOuvrir
    \/ PdfTexte
    \/ PdfLeve
    \/ PdfExcept

SpecPrompt == InitPrompt /\ [][NextPrompt]_vars

\* C16: when a .docx or .pdf file is uploaded, the prompt handed to the provider
\* (synchronous call or batch request body) is not the bare instruction: it
\* holds the instruction and every chunk analyser_document returned.
C16_PromptEmbedsDocument ==
    (envoi # None /\ fichier # <<>>)
        => /\ envoi[1] # user_instruction
           /\ Contient(envoi[1], user_instruction)
           /\ \A n \in 1..Len(resultat[1][1]) : Contient(envoi[1], resultat[1][1][n])


----------------------------------------------------------------------------
(* The block-count chunker decouper_document_en_chunks(document, T), which   *)
(* the specification describes (Chunker, block-count regrouping) and whose   *)
(* code is not in the sources: it is modelled from that description.         *)

MaxBody == 4       \* most blocks in the body of a Document to cut
MaxSeuil == 3      \* largest threshold T

\* the k-th block of a body: its text is its rank, so that no two blocks of a
\* body are equal
BlocDeRang(type, k) ==
    BlocStructure(type, <<RunData(<<<<"1", "2", "3", "4", "5", "6">>[k]>>, None)>>, <<>>, <<>>)

TypesDeBloc == {"paragraph", "heading_1", "heading_2"}

BodiesADecouper ==
    UNION { { [k \in 1..n |-> BlocDeRang(types[k], k)] : types \in [1..n -> TypesDeBloc] } :
            n \in 0..MaxBody }

\* the header and footer of the Documents to cut: none, or one paragraph each
EnTeteEtPied ==
    { <<None, None>>,
      <<Some(<<ParagrapheStructure(<<RunData(<<"h">>, None)>>)>>),
        Some(<<ParagrapheStructure(<<RunData(<<"f">>, None)>>)>>)>> }

DocumentsADecouper ==
    { DocumentStructure(hf[1], hf[2], Some(PyVal("list", b))) :
        hf \in EnTeteEtPied, b \in BodiesADecouper }

\* document["body"]
BodyADecouper == document_a_decouper.valeur.body[1].valeur

\* a heading block, of any level
EstUnTitre(bloc) == bloc.type \in {"heading_1", "heading_2"}

\* a chunk: a full Document with the header and footer of the original
ChunkDe(body) ==
    DocumentStructure(document_a_decouper.valeur.header,
                      document_a_decouper.valeur.footer, Some(PyVal("list", body)))

\* the body of the chunk emitted at a count-based cut whose last block is a
\* heading: the heading is pulled out
SansDernier_Duplique(liste) == liste

SansDernier(liste) == SubSeq(liste, 1, Len(liste) - 1)

InitDecoupe ==
    /\ pc = "decouper"
    /\ SectionInactif
    /\ LotInactif
    /\ ProviderInactif
    /\ ChunkInactif
    /\ TitreInactif
    /\ ImportInactif
    /\ MarkdownInactif
    /\ BlocsInactif
    /\ AppInactif
    /\ document_a_decouper \in DocumentsADecouper
    /\ seuil \in 1..MaxSeuil
    /\ curseur = 0
    /\ pending = <<>>
    /\ chunks_decoupe = <<>>
    /\ coupes = <<>>

\* if len(body) <= T: return [document]
DecoupeEntier ==
    /\ pc = "decouper"
    /\ Len(BodyADecouper) <= seuil
    /\ chunks_decoupe' = <<document_a_decouper>>
    /\ coupes' = <<"entier">>
    /\ pc' = "decoupe_fini"
    /\ UNCHANGED <<horsDecoupe, document_a_decouper, seuil, curseur, pending>>

\* otherwise the walk of body starts
DecoupeEntrer ==
    /\ pc = "decouper"
    /\ Len(BodyADecouper) > seuil
    /\ pc' = "decoupe_boucle"
    /\ UNCHANGED <<horsDecoupe, varsDecoupe>>

\* One block of the walk. A heading_1 met while the pending list is not empty
\* starts a new chunk; the block joins the pending list; when the list reaches T
\* blocks a cut is forced, and a heading that is its last block is carried over
\* as the first block of the next chunk.
DecoupeBloc ==
    /\ pc = "decoupe_boucle"
    /\ curseur < Len(BodyADecouper)
    /\ LET bloc == BodyADecouper[curseur + 1]
           semantique == bloc.type = "heading_1" /\ pending # <<>>
           chunks1 == IF semantique THEN Append(chunks_decoupe, ChunkDe(pending))
                      ELSE chunks_decoupe
           coupes1 == IF semantique THEN Append(coupes, "semantique") ELSE coupes
           pending1 == Append(IF semantique THEN <<>> ELSE pending, bloc)
           compte == Len(pending1) >= seuil
           report == compte /\ EstUnTitre(bloc)
       IN  /\ pending' = IF ~compte THEN pending1 ELSE IF report THEN <<bloc>> ELSE <<>>
           /\ chunks_decoupe' =
                  IF ~compte \/ (report /\ Len(pending1) = 1) THEN chunks1
                  ELSE IF report THEN Append(chunks1, ChunkDe(SansDernier(pending1)))
                       ELSE Append(chunks1, ChunkDe(pending1))
           /\ coupes' =
                  IF ~compte \/ (report /\ Len(pending1) = 1) THEN coupes1
                  ELSE Append(coupes1, IF report THEN "report" ELSE "compte")
    /\ curseur' = curseur + 1
    /\ UNCHANGED <<pc, horsDecoupe, document_a_decouper, seuil>>

\* the walk is over: what is pending is the last chunk
DecoupeFin ==
    /\ pc = "decoupe_boucle"
    /\ curseur = Len(BodyADecouper)
    /\ chunks_decoupe' = IF pending # <<>> THEN Append(chunks_decoupe, ChunkDe(pending))
                         ELSE chunks_decoupe
    /\ coupes' = IF pending # <<>> THEN Append(coupes, "fin") ELSE coupes
    /\ pending' = <<>>
    /\ pc' = "decoupe_fini"
    /\ UNCHANGED <<horsDecoupe, document_a_decouper, seuil, curseur>>

NextDecoupe ==
    \/ DecoupeEntier
    \/ DecoupeEntrer
    \/ DecoupeBloc
    \/ DecoupeFin

SpecDecoupe == InitDecoupe /\ [][NextDecoupe]_vars

\* the body lists of the chunks, concatenated in order
BodiesConcatenes ==
    Concat([k \in 1..Len(chunks_decoupe) |-> chunks_decoupe[k].valeur.body[1].valeur])

\* C14: for any Document and threshold T, the body lists of the chunks of
\* decouper_document_en_chunks, concatenated in order, are the original body
\* (with what is still pending, the part of the body walked so far); when a
\* count-based cut falls on a heading, the chunk emitted stops before the
\* heading, which is the first block of what comes next; every chunk has the
\* original header and footer.
C14_ChunksConcatenateToBody ==
    /\ pc = "decoupe_boucle"
          => BodiesConcatenes \o pending = SubSeq(BodyADecouper, 1, curseur)
    /\ pc = "decoupe_fini" => BodiesConcatenes = BodyADecouper
    /\ \A k \in 1..Len(chunks_decoupe) :
          /\ chunks_decoupe[k].valeur.header = document_a_decouper.valeur.header
          /\ chunks_decoupe[k].valeur.footer = document_a_decouper.valeur.footer
          /\ coupes[k] \in {"compte", "report"}
                => LET body == chunks_decoupe[k].valeur.body[1].valeur
                       suite == BodiesConcatenes \o pending
                       rang == Len(Concat([j \in 1..k |->
                                              chunks_decoupe[j].valeur.body[1].valeur]))
                   IN  /\ coupes[k] = "compte" => ~EstUnTitre(body[Len(body)])
                       /\ coupes[k] = "report" => EstUnTitre(suite[rang + 1])

\* a finished cut in which a heading was carried over to the next chunk, in a
\* Document that has a header and a footer
C14_Witness ==
    /\ pc = "decoupe_fini"
    /\ \E k \in 1..Len(coupes) : coupes[k] = "report"
    /\ document_a_decouper.valeur.header # None


----------------------------------------------------------------------------
(* The order of generer_export_docx.                                         *)

\* document_structure.get(key) is a list that is not empty
Present(valeur) == valeur # None /\ valeur # Some(<<>>)

\* the steps of generer_export_docx that follow the header and the footer
ApresEnTetes == {"export_tdm", "export_corps", "export_save"}

\* C21: generer_export_docx works in a fixed order. When the table of contents
\* is about to be inserted the body is still empty and the header and the footer
\* are populated, each exactly when its list of blocs is not empty, and no later
\* step touches them; the body replay starts from the TOC paragraph alone and
\* keeps it first; the body of the file starts with the one TOC paragraph, which
\* is all of it when the body of the Document is empty or missing; the returned
\* buffer holds that file and stands at offset 0.
C21_FixedOrder ==
    /\ [](pc = "export_tdm"
             => /\ doc = <<>>
                /\ (section.header # <<>>) <=> Present(reponse_structuree[1].valeur.header)
                /\ (section.footer # <<>>) <=> Present(reponse_structuree[1].valeur.footer))
    /\ [](pc = "export_corps" => doc = <<ParagrapheTdm>>)
    /\ [](pc \in {"export_save", "export_retour"}
             => /\ doc # <<>>
                /\ doc[1] = ParagrapheTdm
                /\ \A n \in 2..Len(doc) : doc[n] # ParagrapheTdm
                /\ CorpsExporte = <<>> => doc = <<ParagrapheTdm>>)
    /\ [](pc = "export_retour"
             => /\ buffer # None
                /\ buffer[1].position = 0
                /\ buffer[1].header = section.header
                /\ buffer[1].footer = section.footer
                /\ buffer[1].body = doc)
    /\ [][(pc \in ApresEnTetes) => (section' = section)]_vars
    /\ [][(pc = "export_corps") => (doc' # <<>> /\ doc'[1] = ParagrapheTdm)]_vars

\* a Document with a header and a body of blocs has been exported
C21_Witness ==
    /\ pc = "export_retour"
    /\ Present(reponse_structuree[1].valeur.header)
    /\ section.header # <<>>
    /\ Len(doc) > 1
    /\ buffer[1].position = 0


----------------------------------------------------------------------------
(* The mapping of _reconstruire_blocs.                                       *)

\* what the mapping fixes of a block item: its kind, its style name and the
\* texts of its runs, in order
Signature(type, style, runs) ==
    [type |-> type, style |-> style, textes |-> [n \in 1..Len(runs) |-> runs[n].text]]

SignaturesDe(items) ==
    [n \in 1..Len(items) |-> Signature(items[n].type, items[n].style, items[n].runs)]

\* the level N of a heading_N type
NiveauAttendu(type_bloc) ==
    CASE type_bloc = "heading_1" -> 1
      [] type_bloc = "heading_2" -> 2
      [] type_bloc = "heading_3" -> 3

\* the elements the mapping gives for one bloc
AttendusDe(bloc) ==
    CASE bloc.type \in {"heading_1", "heading_2", "heading_3"} ->
           <<Signature("paragraph", Heading(NiveauAttendu(bloc.type)), bloc.runs)>>
      [] bloc.type = "list" ->
           [n \in 1..Len(bloc.items) |->
               Signature("paragraph", ListBullet, <<[text |-> bloc.items[n]]>>)]
      [] bloc.type = "table" ->
           IF bloc.rows = <<>> THEN <<>> ELSE <<Signature("table", NormalTable, <<>>)>>
      [] OTHER -> <<Signature("paragraph", Normal, bloc.runs)>>

\* the elements the mapping gives for a list of blocs, in the order of the blocs
Attendus(blocs_structure) ==
    Concat([n \in 1..Len(blocs_structure) |-> AttendusDe(blocs_structure[n])])

\* no run of the blocs has a style that makes _appliquer_style_run raise
StylesRejouables(blocs_structure) ==
    \A n \in 1..Len(blocs_structure) :
        \A k \in 1..Len(blocs_structure[n].runs) :
            AppliquerStyleRun(blocs_structure[n].runs[k].text,
                              blocs_structure[n].runs[k].style).leve = "aucune"

\* C22: _reconstruire_blocs emits the elements of its blocs in order: one
\* heading paragraph of level N for heading_N, one bullet paragraph per item of a
\* list and none of its runs, one table for a table with rows, one plain
\* paragraph for any other or missing type, the runs of a heading or paragraph in
\* order with their text. Once generer_export_docx has replayed the header, the
\* header part holds its own paragraph then these elements; once it has replayed
\* a body whose run styles can be applied, the replay has not raised and the
\* document holds the TOC paragraph then these elements.
C22_BlockMapping ==
    (reponse_structuree # None /\ reponse_structuree[1] \in Documents)
        => /\ (pc # "generer_export_docx" /\ Present(reponse_structuree[1].valeur.header))
                 => SignaturesDe(section.header)
                        = SignaturesDe(ParagrapheEnTete(<<"H", "e", "a", "d", "e", "r">>))
                              \o Attendus(reponse_structuree[1].valeur.header[1])
           /\ (/\ pc \in {"export_save", "export_retour", "export_leve"}
               /\ doc # <<>>
               /\ StylesRejouables(CorpsExporte))
                 => /\ pc # "export_leve"
                    /\ SignaturesDe(doc) = SignaturesDe(<<ParagrapheTdm>>) \o Attendus(CorpsExporte)

\* the same, for the Documents whose header holds no heading
C22_SansTitreEnTete ==
    (/\ reponse_structuree # None
     /\ reponse_structuree[1] \in Documents
     /\ Present(reponse_structuree[1].valeur.header)
     /\ \E n \in 1..Len(reponse_structuree[1].valeur.header[1]) :
            EstHeading(TypeBloc(reponse_structuree[1].valeur.header[1][n])))
        \/ C22_BlockMapping


----------------------------------------------------------------------------
(* The replay of a table.                                                    *)

\* the body of the Document is one table bloc with at least one row
UneTable ==
    /\ reponse_structuree # None
    /\ reponse_structuree[1] \in Documents
    /\ Len(CorpsExporte) = 1
    /\ CorpsExporte[1].type = "table"
    /\ CorpsExporte[1].rows # <<>>

\* the texts of the runs of the paragraphs of a native cell
TextesCellule(cellule) ==
    [p \in 1..Len(cellule) |-> [r \in 1..Len(cellule[p]) |-> cellule[p][r].text]]

\* the texts a cell holds once cell_structure is replayed into it: those of the
\* paragraph a new cell has, then those of the blocs
TextesAttendus(cell_structure) ==
    << <<>> >> \o [p \in 1..Len(cell_structure) |->
                     [r \in 1..Len(cell_structure[p].runs) |-> cell_structure[p].runs[r].text]]

\* the native cell of table at row i and column j, both counted from 1
CelluleNative(table, i, j) == table.cells[(j - 1) + ((i - 1) * table.cols) + 1]

\* C23: for a table bloc with at least one row the replay completes and leaves
\* a native table of len(rows) rows and as many columns as the first row has
\* cells, in which every cell of every row of the bloc is replayed into the
\* native cell of the same row and column, whatever the lengths of the rows.
C23_TableGrid ==
    (UneTable /\ pc \in {"export_save", "export_retour", "export_leve"} /\ doc # <<>>)
        => /\ pc # "export_leve"
           /\ Len(doc) = 2
           /\ doc[2].type = "table"
           /\ doc[2].rows = Len(CorpsExporte[1].rows)
           /\ doc[2].cols = Len(CorpsExporte[1].rows[1])
           /\ \A i \in 1..Len(CorpsExporte[1].rows) :
                  \A j \in 1..Len(CorpsExporte[1].rows[i]) :
                      /\ j <= doc[2].cols
                      /\ TextesCellule(CelluleNative(doc[2], i, j))
                             = TextesAttendus(CorpsExporte[1].rows[i][j])

\* the same, for the tables none of whose rows is longer than the first
C23_SansLigneLongue ==
    (UneTable /\ \E i \in 1..Len(CorpsExporte[1].rows) :
                     Len(CorpsExporte[1].rows[i]) > Len(CorpsExporte[1].rows[1]))
        \/ C23_TableGrid


----------------------------------------------------------------------------
(* ia_provider/batch.py: the local history of submitted batches              *)
(* (_load_local_batch_history, _save_batch_to_local_history) and             *)
(* BatchJobManager.get_history, _unify_status.                               *)

MaxHistory == 2    \* most entries of HISTORY_FILE at the start
MaxLimit == 2      \* largest limit handed to get_history

\* a dict has no such key
CleAbsente == "(absent)"

\* the batch ids that are submitted, and one more that only the API lists
IdsSoumis == {"batch_1", "batch_2"}
IdsApi == {"batch_1", "batch_3"}

\* an entry of the history file; requests is None without a "requests" key
Entree(id, provider, status, requests) ==
    [id |-> id, provider |-> provider, status |-> status, submitted_at |-> "now",
     requests |-> requests]

\* a BatchRequest: only custom_id and prompt_text go to the history
BatchRequests ==
    { [custom_id |-> <<"r", "1">>, prompt_text |-> t, method |-> "POST"] :
        t \in {None, Some(<<"p">>)} }

\* argument requests of _save_batch_to_local_history: None, [] or one request
Requetes == {None, Some(<<>>)} \cup { Some(<<q>>) : q \in BatchRequests }

\* the entries the file can hold at the start
EntreesAnciennes ==
    { Entree(i, "openai", "completed", None) : i \in IdsSoumis }
        \cup { Entree(i, CleAbsente, CleAbsente, None) : i \in IdsSoumis }

\* no two entries of history have the same id
SansDoublon(history) ==
    \A m, n \in 1..Len(history) : history[m].id = history[n].id => m = n

\* the contents of a readable history file at the start: lists without duplicate
HistoriquesInitiaux ==
    { h \in UNION { [1..n -> EntreesAnciennes] : n \in 0..MaxHistory } : SansDoublon(h) }

\* a file that is absent, is not JSON or does not hold a list
Illisible == None

\* _load_local_batch_history(): the list of the file, [] without a readable one
LoadLocalBatchHistory(file) == IF file = Illisible THEN <<>> ELSE file[1]

\* the entry is never found
DejaPresent_Jamais(history, batch_id) == FALSE

\* any(item.get("id") == batch_id for item in history)
DejaPresent(history, batch_id) == \E n \in 1..Len(history) : history[n].id = batch_id

\* [{"custom_id": r.custom_id, "prompt_text": r.prompt_text} for r in requests]
PairesDe(requests) ==
    [n \in 1..Len(requests) |->
        [custom_id |-> requests[n].custom_id, prompt_text |-> requests[n].prompt_text]]

\* new_entry, with its "requests" key when requests is neither None nor empty
NewEntry(batch_id, provider, requests) ==
    Entree(batch_id, provider, "running",
           IF requests = None \/ requests = Some(<<>>) THEN None
           ELSE Some(PairesDe(requests[1])))

\* path.write_text(...) in a try block with except Exception: pass. The file
\* is written; or the write is refused and the file is as it was; or it fails
\* after the file was opened for writing, which leaves a file without JSON
Ecritures == {"ok", "refus", "tronque"}

EcrireHistorique(file, history, ecriture) ==
    CASE ecriture = "ok" -> Some(history)
      [] ecriture = "refus" -> file
      [] ecriture = "tronque" -> Illisible

\* a call that has run: its name, its arguments, what it found and returned
Appel(nom, batch_id, provider, requests, avant, ecriture, limit, branche, entries) ==
    [nom |-> nom, batch_id |-> batch_id, provider |-> provider, requests |-> requests,
     avant |-> avant, ecriture |-> ecriture, limit |-> limit, branche |-> branche,
     entries |-> entries]

InitHistory ==
    /\ pc = "historique"
    /\ SectionInactif
    /\ ProviderInactif
    /\ DecoupeInactif
    /\ ChunkInactif
    /\ TitreInactif
    /\ ImportInactif
    /\ BlocsInactif
    /\ MarkdownInactif
    /\ AppInactif
    /\ history_file \in {Illisible} \cup { Some(h) : h \in HistoriquesInitiaux }
    /\ history_retour = Appel("aucun", "", "", None, Illisible, "aucune", 0, "aucune", <<>>)
    /\ horloge = 0
    /\ attente = <<>>

\* what the calls on the history leave alone
horsHistory == <<pc, varsChunk, varsTitre, varsImport, varsMarkdown, varsBlocs, varsApp,
                 varsDecoupe, varsSection, varsProvider, horloge, attente>>

\* _save_batch_to_local_history(batch_id, provider, requests)
SaveBatchToLocalHistory ==
    /\ pc = "historique"
    /\ \E batch_id \in IdsSoumis, provider \in {"openai", "anthropic"},
          requests \in Requetes, ecriture \in Ecritures :
          IF DejaPresent(LoadLocalBatchHistory(history_file), batch_id)
          THEN /\ ecriture = "ok"
               /\ history_retour' = Appel("save", batch_id, provider, requests, history_file,
                                          "aucune", 0, "doublon", <<>>)
               /\ UNCHANGED history_file
          ELSE /\ history_file' =
                     EcrireHistorique(history_file,
                         <<NewEntry(batch_id, provider, requests)>>
                             \o LoadLocalBatchHistory(history_file),
                         ecriture)
               /\ history_retour' = Appel("save", batch_id, provider, requests, history_file,
                                          ecriture, 0, "insert", <<>>)
    /\ UNCHANGED horsHistory

\* the keys of a batch_info dict that _unify_status reads or writes, and its id
BatchInfo(id, provider, status, unified_status) ==
    [id |-> id, provider |-> provider, status |-> status, unified_status |-> unified_status]

\* status_map of the Anthropic branch, with status_map.get(raw_status, "unknown")
StatusMapAnthropic(raw_status) ==
    CASE raw_status = "ended" -> "completed"
      [] raw_status \in {"processing", "created", "canceling"} -> "running"
      [] raw_status = "expired" -> "failed"
      [] OTHER -> "unknown"

\* status_map of the OpenAI branch, with status_map.get(raw_status, "unknown")
StatusMapOpenAI(raw_status) ==
    CASE raw_status = "completed" -> "completed"
      [] raw_status \in {"validating", "in_progress"} -> "running"
      [] raw_status \in {"failed", "expired", "cancelled"} -> "failed"
      [] OTHER -> "unknown"

\* the unified status _unify_status computes; provider is
\* batch_info.get('provider', self.provider_type)
UnifiedStatus(provider, raw_status) ==
    IF raw_status \in {"running", "completed", "failed"} THEN raw_status
    ELSE IF provider = "anthropic" THEN StatusMapAnthropic(raw_status)
         ELSE StatusMapOpenAI(raw_status)

\* self._unify_status(batch_info): the dict with its 'unified_status' key set
UnifyStatus(provider_type, batch_info) ==
    [batch_info EXCEPT !.unified_status =
        UnifiedStatus(IF batch_info.provider = CleAbsente THEN provider_type
                      ELSE batch_info.provider,
                      batch_info.status)]

\* an entry of the file after entry.setdefault("status", "running") and
\* entry.setdefault("provider", self.provider_type), then unified
LocalEntry(provider_type, entry) ==
    UnifyStatus(provider_type,
        BatchInfo(entry.id,
                  IF entry.provider = CleAbsente THEN provider_type ELSE entry.provider,
                  IF entry.status = CleAbsente THEN "running" ELSE entry.status,
                  CleAbsente))

LocalEntries(provider_type, history) ==
    [n \in 1..Len(history) |-> LocalEntry(provider_type, history[n])]

\* the raw statuses the listing of a provider reports in the model
StatutsListes(provider_type) ==
    IF provider_type = "anthropic" THEN {"ended", "in_progress"}
    ELSE {"completed", "in_progress"}

\* batches.data for a listing with limit=limit: at most limit batches, as
\* <<id, status>>, no id twice
ListesApi(provider_type, limit) ==
    { l \in UNION { [1..n -> IdsApi \X StatutsListes(provider_type)] : n \in 0..limit } :
        \A m, n \in 1..Len(l) : l[m][1] = l[n][1] => m = n }

\* batch_info of a listed batch, unified
ApiEntry(provider_type, batch) ==
    UnifyStatus(provider_type, BatchInfo(batch[1], provider_type, batch[2], CleAbsente))

\* seq[:limit]
Slice(seq, limit) == SubSeq(seq, 1, IF Len(seq) < limit THEN Len(seq) ELSE limit)

\* combined[batch['id']] = batch on a dict that keeps insertion order: the
\* entry of the same id is replaced in place, a new id goes last
Placer(entries, batch) ==
    IF \E n \in 1..Len(entries) : entries[n].id = batch.id
    THEN [n \in 1..Len(entries) |-> IF entries[n].id = batch.id THEN batch ELSE entries[n]]
    ELSE Append(entries, batch)

RECURSIVE Combiner(_, _)
\* list(combined.values()) for local entries without duplicate
Combiner(entries, unified_api) ==
    IF unified_api = <<>> THEN entries
    ELSE Combiner(Placer(entries, Head(unified_api)), Tail(unified_api))

\* BatchJobManager.get_history(limit): without client; with a listing that
\* answers; with a listing that raises
GetHistory ==
    /\ pc = "historique"
    /\ \E limit \in 1..MaxLimit, provider_type \in {"openai", "anthropic"} :
          \E branche \in {"sans_client", "fusion", "exception"},
             batches \in ListesApi(provider_type, limit) :
             /\ branche # "fusion" => batches = <<>>
             /\ history_retour' =
                    Appel("get_history", "", provider_type, None, history_file, "aucune",
                          limit, branche,
                          CASE branche = "sans_client" ->
                                 Slice(LocalEntries(provider_type,
                                           LoadLocalBatchHistory(history_file)), limit)
                            [] branche = "fusion" ->
                                 Slice(Combiner(LocalEntries(provider_type,
                                                    LoadLocalBatchHistory(history_file)),
                                                [n \in 1..Len(batches) |->
                                                    ApiEntry(provider_type, batches[n])]),
                                       limit)
                            [] branche = "exception" ->
                                 LocalEntries(provider_type,
                                     LoadLocalBatchHistory(history_file)))
    /\ UNCHANGED <<history_file, horsHistory>>

NextHistory == SaveBatchToLocalHistory \/ GetHistory

SpecHistory == InitHistory /\ [][NextHistory]_vars


\* the ids of the entries of a history
IdsDe(history) == { history[n].id : n \in 1..Len(history) }

\* the list of the file before the last call, and now
HistoriqueAvant == LoadLocalBatchHistory(history_retour.avant)
HistoriqueApres == LoadLocalBatchHistory(history_file)

\* the head of the file is the entry of the last save: its id and provider,
\* status "running", the custom_id and prompt_text of each request
EnTeteInseree ==
    /\ HistoriqueApres # <<>>
    /\ Head(HistoriqueApres).id = history_retour.batch_id
    /\ Head(HistoriqueApres).provider = history_retour.provider
    /\ Head(HistoriqueApres).status = "running"
    /\ \/ /\ history_retour.requests \in {None, Some(<<>>)}
          /\ Head(HistoriqueApres).requests = None
       \/ /\ history_retour.requests \notin {None, Some(<<>>)}
          /\ Head(HistoriqueApres).requests # None
          /\ Len(Head(HistoriqueApres).requests[1]) = Len(history_retour.requests[1])
          /\ \A n \in 1..Len(history_retour.requests[1]) :
                 /\ Head(HistoriqueApres).requests[1][n].custom_id
                        = history_retour.requests[1][n].custom_id
                 /\ Head(HistoriqueApres).requests[1][n].prompt_text
                        = history_retour.requests[1][n].prompt_text
    /\ Tail(HistoriqueApres) = HistoriqueAvant

\* C24 as stated: the history file holds at most one entry per batch id; a save
\* of an id the file has leaves the file unchanged; a save of a new id inserts
\* one entry at the head, with status "running", the given provider and the
\* requests' custom_id/prompt_text pairs, before the earlier entries in order.
C24_SaveInsertsAtHead ==
    /\ SansDoublon(HistoriqueApres)
    /\ history_retour.nom = "save"
           => IF history_retour.batch_id \in IdsDe(HistoriqueAvant)
              THEN history_file = history_retour.avant
              ELSE EnTeteInseree

\* C24, amended: the same when the file is written; when write_text raises, the
\* save of a new id inserts nothing: the file is left as it was, or without
\* readable content.
C24_SaveInsertsWhenWritten ==
    /\ SansDoublon(HistoriqueApres)
    /\ history_retour.nom = "save"
           => IF history_retour.batch_id \in IdsDe(HistoriqueAvant)
              THEN history_file = history_retour.avant
              ELSE CASE history_retour.ecriture = "ok" -> EnTeteInseree
                     [] history_retour.ecriture = "refus" ->
                          history_file = history_retour.avant
                     [] history_retour.ecriture = "tronque" -> history_file = Illisible

\* a new id was saved, with a request, before an earlier entry
C24_Witness ==
    /\ history_retour.nom = "save"
    /\ history_retour.batch_id \notin IdsDe(HistoriqueAvant)
    /\ history_retour.ecriture = "ok"
    /\ history_retour.requests \notin {None, Some(<<>>)}
    /\ Len(HistoriqueApres) = 2


\* C25: get_history(limit) returns at most limit entries on every path: without
\* client, when the listing of the provider answers and the entries are merged,
\* and when the listing raises.
C25_HistoryBounded ==
    history_retour.nom = "get_history"
        => Len(history_retour.entries) <= history_retour.limit

\* the same, for the paths other than a listing that raises; on the merge path
\* an entry of the API stands where the local entry of the same id stood
C25_SansException ==
    (history_retour.nom = "get_history" /\ history_retour.branche # "exception")
        => /\ Len(history_retour.entries) <= history_retour.limit
           /\ \A n \in 1..Len(history_retour.entries) :
                  \A m \in 1..Len(history_retour.entries) :
                      history_retour.entries[n].id = history_retour.entries[m].id => m = n


----------------------------------------------------------------------------
(* BatchJobManager.wait_for_completion and get_status.                       *)

MaxTimeout == 2    \* largest timeout, in ticks of the clock
MaxPas == 2        \* most ticks the clock advances during one time.sleep

\* the raw statuses of a batch: those the APIs document and those the status
\* maps and the polling loop name
StatutsBruts(provider_type) ==
    IF provider_type = "anthropic"
    THEN {"in_progress", "canceling", "ended", "processing", "created", "expired"}
    ELSE {"validating", "failed", "in_progress", "finalizing", "completed", "expired",
          "cancelling", "cancelled"}

\* batch ids: one with the prefix of an OpenAI batch, one without
BatchIds == { <<"b", "a", "t", "c", "h", "_", "1">>, <<"m", "s", "g", "_", "1">> }

\* the call and its locals: start_time, elapsed, status (what get_status
\* returned last, None before the first poll), and why it raised
Attente(provider_type, client, batch_id, timeout, start_time, elapsed, status, cause) ==
    [provider_type |-> provider_type, client |-> client, batch_id |-> batch_id,
     timeout |-> timeout, start_time |-> start_time, elapsed |-> elapsed,
     status |-> status, cause |-> cause]

InitWait ==
    /\ pc = "wait_for_completion"
    /\ SectionInactif
    /\ ProviderInactif
    /\ DecoupeInactif
    /\ ChunkInactif
    /\ TitreInactif
    /\ ImportInactif
    /\ BlocsInactif
    /\ MarkdownInactif
    /\ AppInactif
    /\ history_file = Illisible
    /\ history_retour = <<>>
    /\ horloge \in 0..1
    /\ attente \in { Attente(p, c, b, t, 0, 0, None, "aucune") :
                       p \in {"openai", "anthropic"}, c \in BOOLEAN, b \in BatchIds,
                       t \in 0..MaxTimeout }

\* what the steps of wait_for_completion leave alone
horsWait == <<varsChunk, varsTitre, varsImport, varsMarkdown, varsBlocs, varsApp,
              varsDecoupe, varsSection, varsProvider, history_file, history_retour>>

\* if not self.client: raise APIError; start_time = time.time()
WaitEntrer ==
    /\ pc = "wait_for_completion"
    /\ IF ~attente.client
       THEN /\ attente' = [attente EXCEPT !.cause = "client"]
            /\ pc' = "wait_leve"
       ELSE /\ attente' = [attente EXCEPT !.start_time = horloge]
            /\ pc' = "wait_boucle"
    /\ UNCHANGED <<horloge, horsWait>>

\* get_status(batch_id) with a client: None for an OpenAI id without the prefix
\* "batch_" and when the retrieval raises (reponse is "leve"), else the unified
\* batch_info of raw status reponse
GetStatus(provider_type, batch_id, reponse) ==
    IF provider_type # "anthropic" /\ ~StartsWithStr(batch_id, <<"b", "a", "t", "c", "h", "_">>)
    THEN None
    ELSE IF reponse = "leve" THEN None
         ELSE Some(UnifyStatus(provider_type,
                       BatchInfo(batch_id, provider_type, reponse, CleAbsente)))

\* the status with which the loop returns
StatutSucces(provider_type) == IF provider_type = "anthropic" THEN "ended" ELSE "completed"

\* the statuses on which the loop raises 'terminé avec erreur'
StatutsEchec(provider_type) ==
    IF provider_type = "anthropic" THEN {"canceling", "expired"}
    ELSE {"failed", "expired", "cancelled"}

\* what the loop does with the status it got: <<pc, cause>>
Decision(provider_type, status) ==
    CASE status = None -> <<"wait_leve", "sans_statut">>
      [] status # None /\ status[1].status = StatutSucces(provider_type) ->
           <<"wait_retour", "aucune">>
      [] status # None /\ status[1].status \in StatutsEchec(provider_type) ->
           <<"wait_leve", "echec">>
      [] OTHER -> <<"wait_sleep", "aucune">>

\* the loop found elapsed and status
ApresTour(elapsed, status) ==
    /\ attente' = [attente EXCEPT !.elapsed = elapsed, !.status = status,
                                  !.cause = Decision(attente.provider_type, status)[2]]
    /\ pc' = Decision(attente.provider_type, status)[1]

\* one turn of the while loop up to its return, raise or sleep
WaitTour ==
    /\ pc = "wait_boucle"
    /\ IF horloge - attente.start_time > attente.timeout
       THEN /\ attente' = [attente EXCEPT !.elapsed = horloge - attente.start_time,
                                          !.cause = "timeout"]
            /\ pc' = "wait_leve"
       ELSE \E reponse \in {"leve"} \cup StatutsBruts(attente.provider_type) :
                ApresTour(horloge - attente.start_time,
                          GetStatus(attente.provider_type, attente.batch_id, reponse))
    /\ UNCHANGED <<horloge, horsWait>>

\* the clock stands still
Avancer_Fige(t, pas) == t

\* the clock after pas more ticks
Avancer(t, pas) == t + pas

\* time.sleep(poll_interval): the clock advances
WaitSleep ==
    /\ pc = "wait_sleep"
    /\ \E pas \in 1..MaxPas : horloge' = Avancer(horloge, pas)
    /\ pc' = "wait_boucle"
    /\ UNCHANGED <<attente, horsWait>>

NextWait == WaitEntrer \/ WaitTour \/ WaitSleep

SpecWait == InitWait /\ [][NextWait]_vars

\* the interpreter keeps running the call: a step that can be taken is taken
SpecWaitFair == SpecWait /\ WF_vars(NextWait)

\* C26: wait_for_completion terminates when the clock advances. It returns only
\* with the success status of the provider ('completed' for OpenAI, 'ended' for
\* Anthropic) and returns what get_status gave; it raises APIError on a failure
\* status, when get_status returns nothing, once the elapsed time is over the
\* timeout (and without client); on any other status it sleeps and polls again.
C26_WaitTerminates ==
    /\ <>(pc \in {"wait_retour", "wait_leve"})
    /\ [](pc = "wait_retour"
             => /\ attente.status # None
                /\ attente.status[1].status = StatutSucces(attente.provider_type))
    /\ [](pc = "wait_leve"
             => \/ attente.cause = "client" /\ ~attente.client
                \/ attente.cause = "timeout" /\ attente.elapsed > attente.timeout
                \/ attente.cause = "sans_statut" /\ attente.status = None
                \/ /\ attente.cause = "echec"
                   /\ attente.status # None
                   /\ attente.status[1].status \in StatutsEchec(attente.provider_type))
    /\ [](pc = "wait_sleep"
             => /\ attente.elapsed <= attente.timeout
                /\ attente.status # None
                /\ attente.status[1].status
                       \notin {StatutSucces(attente.provider_type)}
                                  \cup StatutsEchec(attente.provider_type))
    /\ [][(pc = "wait_sleep") => (pc' = "wait_boucle" /\ horloge' > horloge)]_vars

\* the call returned after it slept at least once
C26_Witness ==
    /\ pc = "wait_retour"
    /\ horloge > attente.start_time
    /\ attente.elapsed > 0

\* C27: the unified status and the polling loop agree. When the loop raises
\* 'terminé avec erreur' the unified status of the batch is "failed"; when it
\* returns it is "completed"; when it sleeps to poll again it is "running".
\* _unify_status always gives running, completed, failed or unknown and leaves
\* the status field as it was.
C27_UnifiedAgreesWithPolling ==
    (pc \in {"wait_retour", "wait_leve", "wait_sleep"} /\ attente.status # None)
        => /\ attente.status[1].unified_status \in {"running", "completed", "failed", "unknown"}
           /\ attente.status[1].status \in StatutsBruts(attente.provider_type)
           /\ attente.cause = "echec" => attente.status[1].unified_status = "failed"
           /\ pc = "wait_retour" => attente.status[1].unified_status = "completed"
           /\ pc = "wait_sleep" => attente.status[1].unified_status = "running"

\* the same, for the statuses both sides know: those of the status maps other
\* than Anthropic's canceling
C27_StatutsConnus ==
    (/\ attente # <<>>
     /\ attente.status # None
     /\ \/ attente.status[1].status = "canceling"
        \/ UnifiedStatus(attente.provider_type, attente.status[1].status) = "unknown")
        \/ C27_UnifiedAgreesWithPolling


----------------------------------------------------------------------------
(* app.py: the conversation of the synchronous generation                    *)
(* (st.session_state.messages, generation_count, conversation_mode).         *)

MaxGenerations == 3    \* most synchronous generations attempted in a session

\* the prompts typed by the user
Prompts == { <<"p">>, <<"q">> }

\* a call the API client received
AppelApi(methode, messages, params) ==
    [methode |-> methode, messages |-> messages, params |-> params]

\* a message of st.session_state.messages, as add_message appends it
Message(role, content) == [role |-> role, content |-> content, timestamp |-> "now"]

\* {"role": msg["role"], "content": msg["content"]} for each message
MessagesForApi(messages) ==
    [n \in 1..Len(messages) |-> [role |-> messages[n].role, content |-> messages[n].content]]

\* the text the provider answers to a prompt
ReponseA(p) == <<"r">> \o p

\* st.session_state after init_session_state
SessionState(messages, conversation_mode, generation_count) ==
    [messages |-> messages, conversation_mode |-> conversation_mode,
     generation_count |-> generation_count]

\* the last step of the page: its kind and, for a generation, the prompt and
\* the response (None when the provider raised)
Etape(nom, p, r) == [nom |-> nom, prompt |-> p, response |-> r]

InitConversation ==
    /\ pc = "conversation"
    /\ SectionInactif
    /\ LotInactif
    /\ DecoupeInactif
    /\ ChunkInactif
    /\ TitreInactif
    /\ ImportInactif
    /\ BlocsInactif
    /\ MarkdownInactif
    /\ AppInactif
    /\ session_state = SessionState(<<>>, FALSE, 0)
    /\ kwargs = <<>>
    /\ appels = <<>>
    /\ issue = Etape("init", <<>>, None)

\* what the steps of the conversation leave alone
horsConversation == <<pc, varsChunk, varsTitre, varsImport, varsMarkdown, varsBlocs,
                      varsApp, varsDecoupe, varsSection, varsLot, kwargs>>

\* the checkbox "Mode Conversation" is ticked or unticked
ModeConversation ==
    /\ pc = "conversation"
    /\ session_state' = [session_state EXCEPT !.conversation_mode = ~@]
    /\ issue' = Etape("mode", <<>>, None)
    /\ UNCHANGED <<appels, horsConversation>>

\* add_message(role, content)
AddMessage(messages, role, content) == Append(messages, Message(role, content))

\* the conversation branch: add_message("user", prompt), chatter on the whole
\* history, add_message("assistant", response), the counter; when chatter
\* raises the handler of the page catches it after the first add_message
GenererConversation(p, succes) ==
    /\ appels' = Append(appels,
           AppelApi("chatter",
                    MessagesForApi(AddMessage(session_state.messages, "user", p)), <<>>))
    /\ session_state' =
           IF succes
           THEN [session_state EXCEPT
                    !.messages = AddMessage(AddMessage(@, "user", p), "assistant", ReponseA(p)),
                    !.generation_count = @ + 1]
           ELSE [session_state EXCEPT !.messages = AddMessage(@, "user", p)]

\* the simple branch: generer_reponse(prompt), then the counter
GenererSimple(p, succes) ==
    /\ appels' = Append(appels,
           AppelApi("generer_reponse", <<[role |-> "user", content |-> p]>>, <<>>))
    /\ session_state' =
           IF succes THEN [session_state EXCEPT !.generation_count = @ + 1]
           ELSE session_state

\* the button "Générer" with 'Réponse immédiate (Synchrone)'
Generer ==
    /\ pc = "conversation"
    /\ Len(appels) < MaxGenerations
    /\ \E p \in Prompts, succes \in BOOLEAN :
          /\ IF session_state.conversation_mode /\ session_state.messages # <<>>
             THEN GenererConversation(p, succes)
             ELSE GenererSimple(p, succes)
          /\ issue' = Etape("generation", p, IF succes THEN Some(ReponseA(p)) ELSE None)
    /\ UNCHANGED horsConversation

\* the buttons that call clear_conversation, shown in conversation mode
ClearConversation ==
    /\ pc = "conversation"
    /\ session_state.conversation_mode
    /\ session_state' = [session_state EXCEPT !.messages = <<>>, !.generation_count = 0]
    /\ issue' = Etape("clear", <<>>, None)
    /\ UNCHANGED <<appels, horsConversation>>

NextConversation == ModeConversation \/ Generer \/ ClearConversation

SpecConversation == InitConversation /\ [][NextConversation]_vars

\* the step is a generation that succeeded in conversation mode
GenerationReussie ==
    /\ session_state.conversation_mode
    /\ issue'.nom = "generation"
    /\ issue'.response # None

\* C28: in conversation mode every successful synchronous generation, the
\* first of a conversation included, appends the user prompt then the assistant
\* response to st.session_state.messages and sends the whole history, prompt
\* included, to chatter; clear_conversation empties the history and sets the
\* generation counter to 0.
C28_ConversationAppends ==
    /\ [][GenerationReussie
             => /\ session_state'.messages
                       = session_state.messages
                             \o <<Message("user", issue'.prompt),
                                  Message("assistant", issue'.response[1])>>
                /\ appels'[Len(appels')].methode = "chatter"
                /\ appels'[Len(appels')].messages
                       = MessagesForApi(session_state.messages)
                             \o <<[role |-> "user", content |-> issue'.prompt]>>]_vars
    /\ [][(issue'.nom = "clear")
             => (session_state'.messages = <<>> /\ session_state'.generation_count = 0)]_vars

\* the history of the conversation never holds a message
C28_HistoriqueToujoursVide == session_state.messages = <<>>


----------------------------------------------------------------------------
(* ia_provider/anthropic.py: the parameters AnthropicProvider hands to the   *)
(* API (_preparer_parametres_anthropic over BaseProvider._preparer_parametres). *)

\* the keys of the parameter dicts
Cles ==
    {"temperature", "max_tokens", "top_p", "top_k", "frequency_penalty",
     "presence_penalty", "seed", "stop", "stop_sequences", "thinking_budget", "thinking"}

\* the values of a dict: no such key, None, a number or text, and the dict
\* {'type': 'enabled', 'budget_tokens': ...}, valeur showing its budget
SansCle == PyVal("absent", "")
PyNone == PyVal("NoneType", "None")
Nombre(valeur) == PyVal("valeur", valeur)
ThinkingEnabled(budget_tokens) == PyVal("thinking_enabled", budget_tokens.valeur)

\* load_config() without config.yaml: default_config
DefaultParams ==
    [k \in Cles |->
        CASE k = "temperature" -> Nombre("0.7")
          [] k = "max_tokens" -> Nombre("1000")
          [] k = "top_p" -> Nombre("0.95")
          [] k = "top_k" -> Nombre("40")
          [] k \in {"frequency_penalty", "presence_penalty"} -> Nombre("0")
          [] k = "seed" -> PyNone
          [] OTHER -> SansCle]

\* the keyword arguments of the callers: each of these keys given or not,
\* max_tokens and thinking_budget possibly None
KwargsAnthropic ==
    { [k \in Cles |->
          CASE k = "max_tokens" -> m
            [] k = "thinking_budget" -> b
            [] k \in {"top_k", "seed", "stop", "thinking"} ->
                 IF k \in donnes THEN Nombre("v") ELSE SansCle
            [] OTHER -> SansCle] :
        m \in {SansCle, PyNone, Nombre("500")},
        b \in {SansCle, PyNone, Nombre("200")},
        donnes \in SUBSET {"top_k", "seed", "stop", "thinking"} }

\* BaseProvider._preparer_parametres(**kwargs): the defaults, updated with the
\* kwargs that are not None, without the entries that are None
PreparerParametres(kw) ==
    [k \in Cles |->
        IF kw[k] \notin {SansCle, PyNone} THEN kw[k]
        ELSE IF DefaultParams[k] = PyNone THEN SansCle ELSE DefaultParams[k]]

\* the keys _preparer_parametres_anthropic filters out
ParametresNonSupportes == {"top_k", "frequency_penalty", "presence_penalty", "seed"}

\* params without the keys of parametres_non_supportes
Filtrer(params) ==
    [k \in Cles |-> IF k \in ParametresNonSupportes THEN SansCle ELSE params[k]]

\* if 'max_tokens' not in params: params['max_tokens'] = 1000
AvecMaxTokens(params) ==
    [params EXCEPT !["max_tokens"] = IF @ = SansCle THEN Nombre("1000") ELSE @]

\* if 'stop' in params: params['stop_sequences'] = params.pop('stop')
StopSequences(params) ==
    IF params["stop"] = SansCle THEN params
    ELSE [params EXCEPT !["stop_sequences"] = params["stop"], !["stop"] = SansCle]

\* the thinking parameter, from kwargs['thinking_budget'] or kwargs['thinking']
AvecThinking(kw, params) ==
    IF kw["thinking_budget"] # SansCle
    THEN [params EXCEPT !["thinking"] = ThinkingEnabled(kw["thinking_budget"])]
    ELSE IF kw["thinking"] # SansCle THEN [params EXCEPT !["thinking"] = kw["thinking"]]
         ELSE params

\* self._preparer_parametres_anthropic(**kwargs)
PreparerParametresAnthropic(kw) ==
    AvecThinking(kw, StopSequences(AvecMaxTokens(Filtrer(PreparerParametres(kw)))))

InitAnthropic ==
    /\ pc = "anthropic"
    /\ SectionInactif
    /\ LotInactif
    /\ DecoupeInactif
    /\ ChunkInactif
    /\ TitreInactif
    /\ ImportInactif
    /\ BlocsInactif
    /\ MarkdownInactif
    /\ AppInactif
    /\ session_state = <<>>
    /\ kwargs \in KwargsAnthropic
    /\ appels = <<>>
    /\ issue = <<>>

\* what the calls of a provider leave alone
horsProvider == <<varsChunk, varsTitre, varsImport, varsMarkdown, varsBlocs,
                  varsApp, varsDecoupe, varsSection, varsLot, session_state>>

\* generer_reponse, chatter (messages.create(model, messages, **params)) and
\* submit_batch (the params of the request of the batch) with these kwargs
AnthropicAppel ==
    /\ pc = "anthropic"
    /\ \E methode \in {"generer_reponse", "chatter", "submit_batch"} :
          appels' = <<AppelApi(methode, <<>>, PreparerParametresAnthropic(kwargs))>>
    /\ pc' = "anthropic_envoye"
    /\ UNCHANGED <<kwargs, issue, horsProvider>>

NextAnthropic == AnthropicAppel

SpecAnthropic == InitAnthropic /\ [][NextAnthropic]_vars

\* the keys the claim says are never sent
JamaisEnvoyees ==
    {"top_k", "frequency_penalty", "presence_penalty", "seed", "stop", "thinking_budget"}

\* C29: the parameters handed to the Anthropic API, for a synchronous call and
\* for a batch request, hold none of top_k, frequency_penalty,
\* presence_penalty, seed, stop and thinking_budget, always hold max_tokens,
\* and hold thinking = {type: enabled, budget_tokens: value} when the caller
\* gave thinking_budget.
C29_OnlySupportedKeys ==
    \A n \in 1..Len(appels) :
        /\ \A k \in JamaisEnvoyees : appels[n].params[k] = SansCle
        /\ appels[n].params["max_tokens"] \notin {SansCle, PyNone}
        /\ kwargs["thinking_budget"] # SansCle
               => appels[n].params["thinking"] = ThinkingEnabled(kwargs["thinking_budget"])

\* the same, but for the raw thinking_budget key
C29_SaufThinkingBudget ==
    \A n \in 1..Len(appels) :
        /\ \A k \in JamaisEnvoyees \ {"thinking_budget"} : appels[n].params[k] = SansCle
        /\ appels[n].params["max_tokens"] \notin {SansCle, PyNone}
        /\ kwargs["thinking_budget"] # SansCle
               => appels[n].params["thinking"] = ThinkingEnabled(kwargs["thinking_budget"])
        /\ kwargs["thinking_budget"] \in {SansCle, PyNone}
               => appels[n].params["thinking_budget"] = SansCle


----------------------------------------------------------------------------
(* ia_provider/gpt5.py: GPT5Provider.generer_reponse and GPT5Provider.chatter, *)
(* their first call of the API and the fallback call.                         *)

\* the keys of the parameter dicts of GPT5Provider
ClesGpt5 ==
    {"max_tokens", "max_completion_tokens", "reasoning_effort", "verbosity",
     "temperature", "top_p", "frequency_penalty", "presence_penalty"}

\* the classic parameters, kept in minimal mode only
Classiques == {"temperature", "top_p", "frequency_penalty", "presence_penalty"}

ModelesGpt5 == {"gpt-5", "gpt-5-nano"}

\* the keyword arguments of the callers
KwargsGpt5 ==
    { [k \in ClesGpt5 |->
          CASE k = "max_tokens" -> m
            [] k = "reasoning_effort" -> e
            [] k = "verbosity" -> v
            [] k = "temperature" -> t
            [] OTHER -> SansCle] :
        m \in {SansCle, PyNone, Nombre("500")},
        e \in {SansCle, Nombre("minimal"), Nombre("high")},
        v \in {SansCle, Nombre("low")},
        t \in {SansCle, Nombre("0.7")} }

\* params['reasoning_effort'] before the filter of the None values
ReasoningEffort(model_name, kw) ==
    IF model_name = "gpt-5-nano" THEN Nombre("minimal")
    ELSE IF kw["reasoning_effort"] = SansCle THEN Nombre("medium")
         ELSE kw["reasoning_effort"]

\* a dict without its entries that are None
SansNone(params) ==
    [k \in DOMAIN params |-> IF params[k] = PyNone THEN SansCle ELSE params[k]]

\* self._preparer_parametres_gpt5(**kwargs)
PreparerParametresGpt5(model_name, kw) ==
    SansNone(
      [k \in ClesGpt5 |->
          CASE k = "max_completion_tokens" ->
                 IF kw["max_tokens"] # SansCle THEN kw["max_tokens"]
                 ELSE DefaultParams["max_tokens"]
            [] k = "reasoning_effort" -> ReasoningEffort(model_name, kw)
            [] k = "verbosity" ->
                 IF kw["verbosity"] = SansCle THEN Nombre("medium") ELSE kw["verbosity"]
            [] k \in Classiques ->
                 IF /\ ReasoningEffort(model_name, kw) = Nombre("minimal")
                    /\ model_name # "gpt-5-nano"
                 THEN kw[k] ELSE SansCle
            [] OTHER -> SansCle])

\* params_fallback, with the GPT-5 parameters left in
ParamsFallback_Complet(model_name, params) ==
    [params EXCEPT !["max_completion_tokens"] = IF @ = SansCle THEN Nombre("1000") ELSE @]

\* params_fallback: max_completion_tokens, and the classic parameters of
\* params when the first call was in minimal mode
ParamsFallback(model_name, params) ==
    [k \in ClesGpt5 |->
        CASE k = "max_completion_tokens" ->
               IF params[k] = SansCle THEN Nombre("1000") ELSE params[k]
          [] k \in Classiques ->
               IF /\ params["reasoning_effort"] = Nombre("minimal")
                  /\ model_name # "gpt-5-nano"
               THEN params[k] ELSE SansCle
          [] OTHER -> SansCle]

\* the words the handlers look for in str(e); an error message is the set of
\* these words it contains (none of them is part of another)
Mots == {"reasoning_effort", "verbosity", "max_tokens", "max_completion_tokens"}
ErreursApi == SUBSET Mots

\* mot in error_str
Mentionne(mot, error_str) == mot \in error_str

\* the first test of the handler: the message names both token parameters
ErreurMaxTokens(error_str) ==
    Mentionne("max_tokens", error_str) /\ Mentionne("max_completion_tokens", error_str)

\* the second test: the message names reasoning_effort or verbosity
ErreurParametresGpt5(error_str) ==
    Mentionne("reasoning_effort", error_str) \/ Mentionne("verbosity", error_str)

\* one invocation: the method, the model, whether the prompt or the messages
\* are empty, the params prepared, the messages of the errors of the calls
\* made so far, and how it ended ("" while running)
Invocation(methode, model_name, vide, params, erreurs, fin) ==
    [methode |-> methode, model_name |-> model_name, vide |-> vide,
     params |-> params, erreurs |-> erreurs, fin |-> fin]

InitGpt5 ==
    /\ pc = "gpt5"
    /\ SectionInactif
    /\ LotInactif
    /\ DecoupeInactif
    /\ ChunkInactif
    /\ TitreInactif
    /\ ImportInactif
    /\ BlocsInactif
    /\ MarkdownInactif
    /\ AppInactif
    /\ session_state = <<>>
    /\ kwargs \in KwargsGpt5
    /\ appels = <<>>
    /\ \E methode \in {"generer_reponse", "chatter"}, model_name \in ModelesGpt5,
          vide \in BOOLEAN :
          issue = Invocation(methode, model_name, vide,
                             [k \in ClesGpt5 |-> SansCle], <<>>, "")

\* the entry of generer_reponse and chatter: ValueError for an empty prompt
\* or an empty list of messages, else the params
Gpt5Entrer ==
    /\ pc = "gpt5"
    /\ IF issue.vide
       THEN /\ issue' = [issue EXCEPT !.fin = "ValueError"]
            /\ pc' = "gpt5_fini"
       ELSE /\ issue' = [issue EXCEPT
                           !.params = PreparerParametresGpt5(issue.model_name, kwargs)]
            /\ pc' = "gpt5_appel"
    /\ UNCHANGED <<kwargs, appels, horsProvider>>

\* what the handler of the first call does with the message of the error
ApresErreur(error_str) ==
    IF ErreurMaxTokens(error_str) THEN "APIError"
    ELSE IF ErreurParametresGpt5(error_str) THEN "fallback"
         ELSE "APIError"

\* the first call of chat.completions.create: the answer, or an exception
\* and its handler up to the raise or the fallback call
Gpt5Appel ==
    /\ pc = "gpt5_appel"
    /\ appels' = Append(appels, AppelApi(issue.methode, <<>>, issue.params))
    /\ \/ /\ issue' = [issue EXCEPT !.fin = "retour"]
          /\ pc' = "gpt5_fini"
       \/ \E error_str \in ErreursApi :
             IF ApresErreur(error_str) = "fallback"
             THEN /\ issue' = [issue EXCEPT !.erreurs = Append(@, error_str)]
                  /\ pc' = "gpt5_fallback"
             ELSE /\ issue' = [issue EXCEPT !.erreurs = Append(@, error_str),
                                            !.fin = "APIError"]
                  /\ pc' = "gpt5_fini"
    /\ UNCHANGED <<kwargs, horsProvider>>

\* the fallback call: the answer, or APIError for any exception
Gpt5Fallback ==
    /\ pc = "gpt5_fallback"
    /\ appels' = Append(appels, AppelApi(issue.methode, <<>>,
                                         ParamsFallback(issue.model_name, issue.params)))
    /\ \/ issue' = [issue EXCEPT !.fin = "retour"]
       \/ \E e2 \in ErreursApi :
             issue' = [issue EXCEPT !.erreurs = Append(@, e2), !.fin = "APIError"]
    /\ pc' = "gpt5_fini"
    /\ UNCHANGED <<kwargs, horsProvider>>

NextGpt5 == Gpt5Entrer \/ Gpt5Appel \/ Gpt5Fallback

SpecGpt5 == InitGpt5 /\ [][NextGpt5]_vars

\* the last call made has failed
DernierAppelEchoue == appels # <<>> /\ Len(issue.erreurs) = Len(appels)

\* C30: generer_reponse and chatter call the API at most twice; there is a
\* second call only when the message of the first call's error mentions
\* reasoning_effort or verbosity and does not mention both max_tokens and
\* max_completion_tokens; the second call carries neither reasoning_effort
\* nor verbosity; and an invocation whose last call failed ends with
\* APIError, with no other exception type after a call.
C30_AtMostOneFallback ==
    /\ Len(appels) <= 2
    /\ Len(appels) = 2 =>
          /\ issue.erreurs # <<>>
          /\ \/ "reasoning_effort" \in issue.erreurs[1]
             \/ "verbosity" \in issue.erreurs[1]
          /\ ~ ({"max_tokens", "max_completion_tokens"} \subseteq issue.erreurs[1])
          /\ appels[2].params["reasoning_effort"] = SansCle
          /\ appels[2].params["verbosity"] = SansCle
    /\ (pc = "gpt5_fini" /\ DernierAppelEchoue) => issue.fin = "APIError"
    /\ (pc = "gpt5_fini" /\ appels # <<>>) => issue.fin \in {"retour", "APIError"}

\* an invocation whose two calls failed and that ended with APIError
C30_Witness ==
    /\ pc = "gpt5_fini"
    /\ Len(appels) = 2
    /\ Len(issue.erreurs) = 2
    /\ issue.fin = "APIError"
    /\ appels[1].params["reasoning_effort"] # SansCle

====
